---- MODULE Spec2Model ----
(***************************************************************************)
(* A model of echoframe's capture core: streaming capture (single and      *)
(* dual), the live-transcription hand-off queue, the recording workflow of *)
(* the GUI orchestrator, channel extraction and device selection.          *)
(*                                                                         *)
(* The module holds several specifications over one set of variables; each *)
(* specification drives one component and leaves the others' variables at  *)
(* their initial values.                                                   *)
(***************************************************************************)
EXTENDS Integers, Sequences, FiniteSets, TLC

(***************************************************************************)
(* Bounds of the model.                                                    *)
(***************************************************************************)
\* frames the hardware delivers to one stream during one capture
MaxFrames == 3
\* frames in one delivered block (stands for blocksize, recorder.py:236)
MaxBlock == 2
\* channels of one stream
MaxChannels == 2
\* 100 ms sleeps of record_audio_stream's polling loop
MaxSleeps == 3
\* requested duration of a dual capture, seconds (0 stands for None)
MaxDuration == 2
\* blocks pushed through _enqueue_audio (more than the queue holds)
MaxPushes == 52
\* recording worker threads alive at the same time
MaxWorkers == 2
\* channels of a file given to extract_channels
MaxExChannels == 3
\* frames of a file given to extract_channels
MaxExFrames == 2
\* entries of a channel-index list
MaxKeep == 2
\* devices in an enumeration
MaxDevices == 3
\* the channel count a user may ask for
MaxRequested == 4
\* the max_input_channels a device may report
MaxInputChannels == 3

\* sample rates, frames per second (small stand-ins for 16000, 44100, ...)
SampleRates == {1, 2, 3}

None == "None"

Min(a, b) == IF a <= b THEN a ELSE b

VARIABLES
    \* ---- streaming capture (recorder.py) ----
    mode,             \* "single": record_audio_stream, "dual": record_audio_stream_dual,
                      \* "fixed": record_audio
    duration_seconds, \* dual, fixed: the duration asked for, 0 when not given
    streams_open,     \* dual: the streams that are open
    exit_reason,      \* dual: why the loop was left, "stop" or "target"
    cap_error,        \* the error the capture call raised, None if none
    sample_rate_hz,
    channels,         \* single: channels
    mic_channels,     \* dual: mic_channels
    system_channels,  \* dual: system_channels
    target_frames,    \* dual: int(duration_seconds * sample_rate_hz), 0 when not given
    has_on_chunk,     \* on_chunk is not None
    stop_event,       \* threading.Event shared with the caller
    cap_pc,           \* position of the capture call
    handle,           \* the wave file being written: header and interleaved samples
    frames_written,
    delivered,        \* frames each stream has delivered so far: [mic, sys], and
                      \* how many of them came in blocks with a status flag
    sleeps,           \* sd.sleep(100) calls made by the polling loop
    late_blocks,      \* blocks written after stop_event was set
    chunks,           \* blocks handed to on_chunk, in order
    result            \* RecordingResult.duration_seconds, None until returned

capVars == <<mode, sample_rate_hz, channels, mic_channels, system_channels,
             target_frames, has_on_chunk, stop_event, cap_pc, handle,
             frames_written, delivered, sleeps, late_blocks, chunks, result,
             duration_seconds, streams_open, exit_reason, cap_error>>

\* ---- live-transcription hand-off (gui.py) ----
VARIABLES
    audio_queue,      \* live["audio_queue"]: [ref |-> FALSE] is None, else the queue's items
    consumer_paused,  \* the live worker is not taking blocks
    pushed,           \* blocks handed to _enqueue_audio so far
    enqueued_ids,     \* blocks put_nowait accepted
    dropped_ids,      \* blocks dropped on queue.Full
    full_at_push,     \* blocks that found the queue full when pushed
    consumed,         \* blocks the worker has taken
    enqueue_outcome,  \* how the last _enqueue_audio call ended
    enq_pc,           \* _enqueue_audio: "idle", or "checked" after its None test
    live_pc,          \* the live worker: "off", "import", "load", "loop",
                      \* "exited" (returned) or "raised"
    engine_failure,   \* what kept the engine from being constructed, None if nothing
    text_queue        \* live["text_queue"]: the messages put, in order

queueVars == <<audio_queue, consumer_paused, pushed, enqueued_ids, dropped_ids,
               full_at_push, consumed, enqueue_outcome, enq_pc, live_pc,
               engine_failure, text_queue>>

\* ---- recording workflow of the orchestrator (gui.py) ----
VARIABLES
    recording,        \* state["recording"]
    start_time,       \* state["start_time"]: None or "set"
    live_stop_event,  \* live["stop_event"]
    pc,               \* position of each recording worker thread
    output_path,      \* each worker's output_path
    failed,           \* the step of each worker that raised, None when none did
    last_status,      \* the last text each worker has passed to _set_status
    files             \* the recordings directory: path -> content

orchVars == <<recording, start_time, live_stop_event, pc, output_path, failed,
              last_status, files>>

\* channel extraction: a directory of wave files and the calls made on it
VARIABLES
    fs,               \* path -> wave file (NoFile when the path does not exist)
    channels_to_keep, \* the index list of the call on the original
    out_before,       \* what the output path held before that call
    ex_called,        \* the calls of extract_channels that have returned or raised
    ex_error          \* call -> the message of the error it raised, None if none

extractVars == <<fs, channels_to_keep, out_before, ex_called, ex_error>>

\* device selection: one call of select_preferred_device
VARIABLES
    candidates,       \* the enumerated devices, in enumeration order
    prefer_name,      \* the name fragment; the empty string stands for None too
    dev_pc,           \* "idle", "ready" (not called yet) or "done"
    selected,         \* the device returned, NoDevice before and on an error
    dev_error,        \* the message of the error raised, None if none
    zoom_name         \* find_zoom_name_from_candidates: called?, the name returned

deviceVars == <<candidates, prefer_name, dev_pc, selected, dev_error, zoom_name>>

\* starting a capture: the channel count on its way from the request to the
\* file and the stream
VARIABLES
    entry,              \* the path that starts the capture
    requested,          \* args.channels / mic_channels_var at the start
    max_input_channels, \* the resolved device's max_input_channels
    start_pc,           \* "idle", "ready", "resolved", "file", "done"
    passed,             \* the channels argument given to the recorder
    announced,          \* the adjusted count shown to the user, 0 when none is
    file_channels,      \* setnchannels of the output file, 0 before it is opened
    stream_channels,    \* channels of the open stream, 0 when none is open
    start_error         \* the error the capture raised, None if none

VARIABLES
    config,           \* the Config given to save_config
    yaml_file,        \* the YAML document at the path: NoDocument before the save
    loaded,           \* the Config load_config returned, None before the load
    cfg_pc            \* "idle", "ready", "saved" or "loaded"

configVars == <<config, yaml_file, loaded, cfg_pc>>

VARIABLES
    note_args,        \* the arguments of the render_note call
    note,             \* the text render_note returned
    render_pc         \* "idle", "ready" or "rendered"

renderVars == <<note_args, note, render_pc>>

\* ---- the live worker's loop and the threads that stop it (gui.py) ----
VARIABLES
    live_rate,        \* sample_rate_hz given to _start_live_transcriber
    wq_ref,           \* live["audio_queue"] is not None
    wq_items,         \* the items of the Queue object, oldest first
    w_stop,           \* live["stop_event"]
    w_pc,             \* the live worker: "idle", "loop", "get", "slice", "engine",
                      \* "flush", "flush_engine", "exited" or "raised"
    buffer,           \* the worker's rolling buffer, as frame numbers
    taken,            \* every frame the worker has appended to its buffer
    engine_log,       \* the calls of the engine so far, in order of their start
    in_engine,        \* who is inside an engine call: "live", "full"
    rec_pc,           \* the recording: "idle", "capturing", "stopping" (stop
                      \* requested), "stopped" (line 1263 done), "transcribing", "done"
    produced          \* frames the capture has delivered so far

workerVars == <<live_rate, wq_ref, wq_items, w_stop, w_pc, buffer, taken,
                engine_log, in_engine, rec_pc, produced>>

\* ---- the finalizing steps of one recording's _worker (gui.py) ----
VARIABLES
    fin_mode,         \* mode = capture_mode_var.get(): "mic", "system", "dual"
    fin_mic_count,    \* int(mic_channels_var.get())
    fin_output_path,  \* output_path of the recording
    transcribe_path,  \* the local transcribe_path, None before its assignment
    segments,         \* the local segments, None before its assignment
    fin_pc,           \* "captured", "branch", "extracting", "transcribe",
                      \* "transcribing", "diarize", "diarizing", "note", "except"
    fin_calls         \* calls and returns of extract_channels, transcribe_audio
                      \* and diarize_segments, in order

finalVars == <<fin_mode, fin_mic_count, fin_output_path, transcribe_path, segments,
               fin_pc, fin_calls>>

\* ---- diarize_segments (diarizer.py) ----
VARIABLES
    dz_heap,          \* the Segment objects that exist, by object number
    dz_segments,      \* the argument segments: the list's object numbers
    dz_given,         \* the field values of the argument's segments at the call
    dz_turns,         \* speaker_turns: what diarization.itertracks yields
    dz_hf_token,      \* hf_token is not empty
    dz_speaker_map,   \* speaker_map
    dz_imports,       \* soundfile and numpy (fallback) or pyannote (external)
                      \* can be imported
    dz_waveform,      \* what sf.read(audio_path, always_2d=True) returns
    dz_pc,            \* "idle", "called", "returned", "raised"
    dz_result         \* the list returned: which list object, and its items

diarVars == <<dz_heap, dz_segments, dz_given, dz_turns, dz_hf_token, dz_speaker_map,
              dz_imports, dz_waveform, dz_pc, dz_result>>

\* ---- _build_timeline_lines (renderer.py) ----
VARIABLES
    tl_segments,      \* the argument segments: start in hundredths of a second,
                      \* text, speaker
    tl_notes,         \* the argument timestamped_notes: dicts with timestamp
                      \* (may be missing), text, contact
    tl_lines,         \* the list of lines returned
    tl_pc             \* "idle", "called", "returned"

timelineVars == <<tl_segments, tl_notes, tl_lines, tl_pc>>

\* ---- the end of _worker: note, segments file, session record (gui.py) ----
VARIABLES
    sv_segments,      \* the segments after transcription and diarization
    sv_stamped,       \* state["timestamped_notes"]
    sv_note,          \* the parts of the note file; <<>> while it does not exist
    sv_segments_file, \* the segments file: Absent, or the dicts dumped to it
    sv_session_file,  \* the session record: Absent, or written
    sv_written,       \* the files written, in order
    sv_status,        \* the last status reported
    sv_cleanup,       \* _cleanup_recordings has run
    sv_recording,     \* state["recording"]
    sv_pc             \* "idle", "note", "segments", "session", "except",
                      \* "finally", "done"

saveVars == <<sv_segments, sv_stamped, sv_note, sv_segments_file, sv_session_file,
              sv_written, sv_status, sv_cleanup, sv_recording, sv_pc>>

startVars == <<entry, requested, max_input_channels, start_pc, passed, announced,
               file_channels, stream_channels, start_error>>

vars == <<capVars, queueVars, orchVars, extractVars, deviceVars, startVars,
          configVars, renderVars, workerVars, finalVars, diarVars, timelineVars, saveVars>>

\* what each component leaves alone
capOnly == <<mode, sample_rate_hz, channels, mic_channels, system_channels,
             target_frames, has_on_chunk, cap_pc, handle,
             frames_written, delivered, sleeps, late_blocks, chunks, result,
             duration_seconds, streams_open, exit_reason, cap_error>>
queueOnly == <<consumer_paused, pushed, enqueued_ids, dropped_ids,
               full_at_push, consumed, enqueue_outcome, enq_pc, live_pc,
               engine_failure, text_queue>>
notCap == <<queueVars, orchVars, extractVars, deviceVars, startVars,
             configVars, renderVars, workerVars, finalVars, diarVars, timelineVars, saveVars>>
notQueue == <<capVars, orchVars, extractVars, deviceVars, startVars,
               configVars, renderVars, workerVars, finalVars, diarVars, timelineVars, saveVars>>
notOrch == <<capOnly, queueOnly, extractVars, deviceVars, startVars,
              configVars, renderVars, workerVars, finalVars, diarVars, timelineVars, saveVars>>
notExtract == <<capVars, queueVars, orchVars, deviceVars, startVars,
                 configVars, renderVars, workerVars, finalVars, diarVars, timelineVars, saveVars>>
notDevice == <<capVars, queueVars, orchVars, extractVars, startVars,
                configVars, renderVars, workerVars, finalVars, diarVars, timelineVars, saveVars>>
notStart == <<capVars, queueVars, orchVars, extractVars, deviceVars,
               configVars, renderVars, workerVars, finalVars, diarVars, timelineVars, saveVars>>
notConfig == <<capVars, queueVars, orchVars, extractVars, deviceVars, startVars,
                renderVars, workerVars, finalVars, diarVars, timelineVars, saveVars>>
notRender == <<capVars, queueVars, orchVars, extractVars, deviceVars, startVars,
                configVars, workerVars, finalVars, diarVars, timelineVars, saveVars>>
notWorker == <<capVars, queueVars, orchVars, extractVars, deviceVars, startVars,
                configVars, renderVars, finalVars, diarVars, timelineVars, saveVars>>
notFinal == <<capVars, queueVars, orchVars, extractVars, deviceVars, startVars,
               configVars, renderVars, workerVars, diarVars, timelineVars, saveVars>>
notDiar == <<capVars, queueVars, orchVars, extractVars, deviceVars, startVars,
          configVars, renderVars, workerVars, finalVars, timelineVars, saveVars>>
notTimeline == <<capVars, queueVars, orchVars, extractVars, deviceVars, startVars,
          configVars, renderVars, workerVars, finalVars, diarVars, saveVars>>
notSave == <<capVars, queueVars, orchVars, extractVars, deviceVars, startVars,
          configVars, renderVars, workerVars, finalVars, diarVars, timelineVars>>

(***************************************************************************)
(* Wave files: wave.open(path, "wb") + setnchannels/setsampwidth/          *)
(* setframerate give the header, writeframes appends interleaved samples.  *)
(***************************************************************************)
WaveOpen(nch, rate) ==
    [nchannels |-> nch, sampwidth |-> 2, framerate |-> rate, samples |-> <<>>]

\* ndarray.tobytes() of a (frames x channels) array: rows one after another
RECURSIVE ToBytes(_)
ToBytes(block) ==
    IF block = <<>> THEN <<>> ELSE Head(block) \o ToBytes(Tail(block))

WriteFrames(h, flat) == [h EXCEPT !.samples = @ \o flat]

\* wave's frame count: samples // nchannels
NFrames(h) == Len(h.samples) \div h.nchannels

\* sample j (0-based channel) of frame i (1-based) as a reader regroups them
SampleAt(h, i, j) == h.samples[(i - 1) * h.nchannels + j + 1]

(***************************************************************************)
(* Hardware blocks: n frames of nch samples; a sample is named by its      *)
(* stream, its channel and its frame's position in the stream.             *)
(***************************************************************************)
Block(src, first, n, nch) ==
    [i \in 1..n |-> [j \in 1..nch |-> <<src, j - 1, first + i>>]]

\* np.concatenate([mic_data, sys_data], axis=1)
ConcatenateSysFirst(mic_data, sys_data) ==
    [i \in 1..Len(mic_data) |-> sys_data[i] \o mic_data[i]]

Concatenate(mic_data, sys_data) ==
    [i \in 1..Len(mic_data) |-> mic_data[i] \o sys_data[i]]

\* int(frames_written / sample_rate_hz); exact for frame counts below 2^53
DurationWallClock == (sleeps * 100) \div 1000

Duration == frames_written \div sample_rate_hz

(***************************************************************************)
(* record_audio_stream                                                     *)
(***************************************************************************)
CapInit ==
    /\ mode \in {"single", "dual", "fixed"}
    /\ sample_rate_hz \in SampleRates
    /\ CASE mode = "single" ->
            /\ has_on_chunk \in BOOLEAN
            /\ channels \in 1..MaxChannels
            /\ mic_channels = 0
            /\ system_channels = 0
            /\ duration_seconds = 0
            /\ target_frames = 0
            /\ handle = WaveOpen(channels, sample_rate_hz)
            /\ cap_pc = "loop"
         [] mode = "dual" ->
            /\ has_on_chunk \in BOOLEAN
            /\ channels = 0
            /\ mic_channels \in 1..MaxChannels
            /\ system_channels \in 1..MaxChannels
            /\ duration_seconds \in 0..MaxDuration
            /\ target_frames = duration_seconds * sample_rate_hz
            /\ handle = WaveOpen(mic_channels + system_channels, sample_rate_hz)
            /\ cap_pc = "open_mic"
         [] mode = "fixed" ->
            /\ has_on_chunk = FALSE
            /\ channels \in 1..MaxChannels
            /\ mic_channels = 0
            /\ system_channels = 0
            /\ duration_seconds \in 0..MaxDuration
            /\ target_frames = duration_seconds * sample_rate_hz
            /\ handle = None
            /\ cap_pc = "rec"
    /\ streams_open = {}
    /\ exit_reason = None
    /\ cap_error = None
    /\ stop_event = FALSE
    /\ frames_written = 0
    /\ delivered = [mic |-> 0, sys |-> 0, flagged |-> 0]
    /\ sleeps = 0
    /\ late_blocks = 0
    /\ chunks = <<>>
    /\ result = None

\* a callback without the status test: a flagged block is written, counted
\* and handed on like any other
CallbackKeepsFlagged ==
    /\ mode = "single"
    /\ cap_pc = "loop"
    /\ \E n \in 1..MaxBlock, status \in BOOLEAN :
         /\ delivered.mic + n <= MaxFrames
         /\ delivered' = [delivered EXCEPT !.mic = @ + n,
                                           !.flagged = IF status THEN @ + n ELSE @]
         /\ LET indata == Block("mic", delivered.mic, n, channels) IN
            /\ handle' = WriteFrames(handle, ToBytes(indata))
            /\ frames_written' = frames_written + n
            /\ chunks' = IF has_on_chunk THEN Append(chunks, indata) ELSE chunks
            /\ late_blocks' = IF stop_event THEN late_blocks + 1 ELSE late_blocks
    /\ UNCHANGED <<mode, sample_rate_hz, channels, mic_channels, system_channels,
                   target_frames, has_on_chunk, stop_event, cap_pc, sleeps, result>>
    /\ UNCHANGED <<duration_seconds, streams_open, exit_reason, cap_error>>
    /\ UNCHANGED notCap

\* _callback(indata, _frames, _time, status), run by the audio thread while
\* the InputStream is open
Callback ==
    /\ mode = "single"
    /\ cap_pc = "loop"
    /\ \E n \in 1..MaxBlock, status \in BOOLEAN :
         /\ delivered.mic + n <= MaxFrames
         /\ delivered' = [delivered EXCEPT !.mic = @ + n,
                                           !.flagged = IF status THEN @ + n ELSE @]
         /\ LET indata == Block("mic", delivered.mic, n, channels) IN
            IF status
            THEN UNCHANGED <<handle, frames_written, chunks, late_blocks>>
            ELSE /\ handle' = WriteFrames(handle, ToBytes(indata))
                 /\ frames_written' = frames_written + n
                 /\ chunks' = IF has_on_chunk THEN Append(chunks, indata) ELSE chunks
                 /\ late_blocks' = IF stop_event THEN late_blocks + 1 ELSE late_blocks
    /\ UNCHANGED <<mode, sample_rate_hz, channels, mic_channels, system_channels,
                   target_frames, has_on_chunk, stop_event, cap_pc, sleeps, result>>
    /\ UNCHANGED <<duration_seconds, streams_open, exit_reason, cap_error>>
    /\ UNCHANGED notCap

\* while True: if stop_event.is_set(): break; sd.sleep(100)
Poll ==
    /\ mode = "single"
    /\ cap_pc = "loop"
    /\ IF stop_event
       THEN cap_pc' = "closing" /\ UNCHANGED sleeps
       ELSE /\ sleeps < MaxSleeps
            /\ sleeps' = sleeps + 1
            /\ UNCHANGED cap_pc
    /\ UNCHANGED <<mode, sample_rate_hz, channels, mic_channels, system_channels,
                   target_frames, has_on_chunk, stop_event, handle, frames_written,
                   delivered, late_blocks, chunks, result>>
    /\ UNCHANGED <<duration_seconds, streams_open, exit_reason, cap_error>>
    /\ UNCHANGED notCap

(***************************************************************************)
(* record_audio_stream_dual                                                *)
(***************************************************************************)
\* the two sd.InputStream(...) of the with statement: the mic stream is
\* opened and entered first; an error opening it leaves the with block of the
\* file, which closes the file with its header and no frame
OpenMicStream ==
    /\ mode = "dual"
    /\ cap_pc = "open_mic"
    /\ \E ok \in BOOLEAN :
         IF ok
         THEN /\ streams_open' = streams_open \cup {"mic"}
              /\ cap_pc' = "open_sys"
              /\ UNCHANGED cap_error
         ELSE /\ cap_pc' = "raised"
              /\ cap_error' = "PortAudioError: mic"
              /\ UNCHANGED streams_open
    /\ UNCHANGED <<mode, sample_rate_hz, channels, mic_channels, system_channels,
                   target_frames, has_on_chunk, stop_event, handle, frames_written,
                   delivered, sleeps, late_blocks, chunks, result,
                   duration_seconds, exit_reason>>
    /\ UNCHANGED notCap

\* the system stream failing to open with the mic stream left as it is
OpenSysStreamLeak ==
    /\ mode = "dual"
    /\ cap_pc = "open_sys"
    /\ \E ok \in BOOLEAN :
         IF ok
         THEN /\ streams_open' = streams_open \cup {"sys"}
              /\ cap_pc' = "check"
              /\ UNCHANGED cap_error
         ELSE /\ UNCHANGED streams_open
              /\ cap_pc' = "raised"
              /\ cap_error' = "PortAudioError: system"
    /\ UNCHANGED <<mode, sample_rate_hz, channels, mic_channels, system_channels,
                   target_frames, has_on_chunk, stop_event, handle, frames_written,
                   delivered, sleeps, late_blocks, chunks, result,
                   duration_seconds, exit_reason>>
    /\ UNCHANGED notCap

\* the system stream is opened second; an error opening it runs the exit of
\* the mic stream's context, which closes the mic stream
OpenSysStream ==
    /\ mode = "dual"
    /\ cap_pc = "open_sys"
    /\ \E ok \in BOOLEAN :
         IF ok
         THEN /\ streams_open' = streams_open \cup {"sys"}
              /\ cap_pc' = "check"
              /\ UNCHANGED cap_error
         ELSE /\ streams_open' = {}
              /\ cap_pc' = "raised"
              /\ cap_error' = "PortAudioError: system"
    /\ UNCHANGED <<mode, sample_rate_hz, channels, mic_channels, system_channels,
                   target_frames, has_on_chunk, stop_event, handle, frames_written,
                   delivered, sleeps, late_blocks, chunks, result,
                   duration_seconds, exit_reason>>
    /\ UNCHANGED notCap

\* the target test with > in place of >=
TargetReachedStrict(written) == target_frames # 0 /\ written > target_frames

\* if target_frames and frames_written >= target_frames: break
TargetReached(written) == target_frames # 0 /\ written >= target_frames

\* a loop head that never looks at the stop signal
DualCheckIgnoresStop ==
    /\ mode = "dual"
    /\ cap_pc = "check"
    /\ cap_pc' = "read"
    /\ UNCHANGED <<mode, sample_rate_hz, channels, mic_channels, system_channels,
                   target_frames, has_on_chunk, stop_event, handle, frames_written,
                   delivered, sleeps, late_blocks, chunks, result>>
    /\ UNCHANGED <<duration_seconds, streams_open, exit_reason, cap_error>>
    /\ UNCHANGED notCap

\* if stop_event is not None and stop_event.is_set(): break
DualCheck ==
    /\ mode = "dual"
    /\ cap_pc = "check"
    /\ cap_pc' = IF stop_event THEN "closing" ELSE "read"
    /\ exit_reason' = IF stop_event THEN "stop" ELSE exit_reason
    /\ UNCHANGED <<mode, sample_rate_hz, channels, mic_channels, system_channels,
                   target_frames, has_on_chunk, stop_event, handle, frames_written,
                   delivered, sleeps, late_blocks, chunks, result>>
    /\ UNCHANGED <<duration_seconds, streams_open, cap_error>>
    /\ UNCHANGED notCap

\* a block cut to its last frames
TruncateTail(data, frames) == SubSeq(data, Len(data) - frames + 1, Len(data))

\* mic_data[:frames], sys_data[:frames]
Truncate(data, frames) == SubSeq(data, 1, frames)

\* a loop body that writes the block without counting it
CountNothing(written, combined) == written

\* frames_written += combined.shape[0]
CountFrames(written, combined) == written + Len(combined)

\* one pass of the loop body: read both streams, truncate to the shorter
\* block, concatenate, write, count, hand the mic block on, test the target
DualIteration ==
    /\ mode = "dual"
    /\ cap_pc = "read"
    /\ \E m \in 0..MaxBlock, s \in 0..MaxBlock :
         /\ m + s > 0
         /\ delivered.mic + m <= MaxFrames
         /\ delivered.sys + s <= MaxFrames
         /\ delivered' = [delivered EXCEPT !.mic = @ + m, !.sys = @ + s]
         /\ LET mic_read == Block("mic", delivered.mic, m, mic_channels)
                sys_read == Block("sys", delivered.sys, s, system_channels)
                frames   == Min(m, s)
                mic_data == IF m # s THEN Truncate(mic_read, frames) ELSE mic_read
                sys_data == IF m # s THEN Truncate(sys_read, frames) ELSE sys_read
                combined == Concatenate(mic_data, sys_data)
            IN /\ handle' = WriteFrames(handle, ToBytes(combined))
               /\ frames_written' = CountFrames(frames_written, combined)
               /\ chunks' = IF has_on_chunk THEN Append(chunks, mic_data) ELSE chunks
               /\ late_blocks' = IF stop_event THEN late_blocks + 1 ELSE late_blocks
               /\ cap_pc' = IF TargetReached(frames_written')
                            THEN "closing" ELSE "check"
               /\ exit_reason' = IF TargetReached(frames_written')
                                 THEN "target" ELSE exit_reason
    /\ UNCHANGED <<mode, sample_rate_hz, channels, mic_channels, system_channels,
                   target_frames, has_on_chunk, stop_event, sleeps, result>>
    /\ UNCHANGED <<duration_seconds, streams_open, cap_error>>
    /\ UNCHANGED notCap

\* leaving the with blocks closes streams and file; the duration is computed
\* and the RecordingResult returned
Finish ==
    /\ cap_pc = "closing"
    /\ cap_pc' = "done"
    /\ result' = Duration
    /\ streams_open' = {}
    /\ UNCHANGED <<mode, sample_rate_hz, channels, mic_channels, system_channels,
                   target_frames, has_on_chunk, stop_event, handle, frames_written,
                   delivered, sleeps, late_blocks, chunks>>
    /\ UNCHANGED <<duration_seconds, exit_reason, cap_error>>
    /\ UNCHANGED notCap

(***************************************************************************)
(* record_audio: a capture of a fixed number of frames                     *)
(***************************************************************************)
\* the duration returned taken from the frames recorded
RecordAudioResultFromFrames(frames) == frames \div sample_rate_hz + 1

\* RecordingResult(duration_seconds=duration_seconds)
RecordAudioResult(frames) == duration_seconds

\* frames = int(duration_seconds * sample_rate_hz); sd.rec(frames, ...) and
\* sd.wait() give an array of exactly that many frames, written in one call
RecordAudio ==
    /\ mode = "fixed"
    /\ cap_pc = "rec"
    /\ LET frames == target_frames IN
       IF frames <= 0
       THEN /\ cap_pc' = "raised"
            /\ cap_error' = "duration_seconds must be > 0."
            /\ UNCHANGED <<handle, delivered, result>>
       ELSE /\ cap_pc' = "returned"
            /\ delivered' = [delivered EXCEPT !.mic = frames]
            /\ handle' = WriteFrames(WaveOpen(channels, sample_rate_hz),
                                     ToBytes(Block("mic", 0, frames, channels)))
            /\ result' = RecordAudioResult(frames)
            /\ UNCHANGED cap_error
    /\ UNCHANGED <<mode, sample_rate_hz, channels, mic_channels, system_channels,
                   target_frames, has_on_chunk, stop_event, frames_written,
                   sleeps, late_blocks, chunks, duration_seconds, streams_open,
                   exit_reason>>
    /\ UNCHANGED notCap

\* the caller's stop_event.set(), from any thread, any number of times
SetStop ==
    /\ cap_pc \notin {"done", "raised", "returned"}
    /\ stop_event' = TRUE
    /\ UNCHANGED <<mode, sample_rate_hz, channels, mic_channels, system_channels,
                   target_frames, has_on_chunk, cap_pc, handle, frames_written,
                   delivered, sleeps, late_blocks, chunks, result>>
    /\ UNCHANGED <<duration_seconds, streams_open, exit_reason, cap_error>>
    /\ UNCHANGED notCap

(***************************************************************************)
(* The bounded queue between capture and the live worker.                  *)
(***************************************************************************)
\* queue.Queue(maxsize=50)
QueueMaxSize == 50

\* Queue.put(item): waits for a free slot
Put(q, item) ==
    IF Len(q) >= QueueMaxSize
    THEN [queue |-> q, exc |-> "blocked"]
    ELSE [queue |-> Append(q, item), exc |-> None]

\* Queue.put_nowait(item): raises queue.Full instead of waiting
PutNowait(q, item) ==
    IF Len(q) >= QueueMaxSize
    THEN [queue |-> q, exc |-> "Full"]
    ELSE [queue |-> Append(q, item), exc |-> None]

NoQueue == [ref |-> FALSE, items |-> <<>>]

\* the messages the live transcriber puts on the text queue at its start
Starting == "[Live transcription starting...]"

Unavailable == "[Live transcription unavailable: ...]"

QueueIdle ==
    /\ audio_queue = NoQueue
    /\ consumer_paused = FALSE
    /\ pushed = 0
    /\ enqueued_ids = {}
    /\ dropped_ids = {}
    /\ full_at_push = {}
    /\ consumed = 0
    /\ enqueue_outcome = None
    /\ enq_pc = "idle"
    /\ live_pc = "off"
    /\ engine_failure = None
    /\ text_queue = <<>>

\* _start_live_transcriber: returns at once when live transcription is off,
\* else live["audio_queue"] = queue.Queue(maxsize=50)
QueueInit ==
    /\ audio_queue \in {NoQueue, [ref |-> TRUE, items |-> <<>>]}
    /\ consumer_paused \in BOOLEAN
    /\ pushed = 0
    /\ enqueued_ids = {}
    /\ dropped_ids = {}
    /\ full_at_push = {}
    /\ consumed = 0
    /\ enqueue_outcome = None
    /\ enq_pc = "idle"
    /\ live_pc = IF audio_queue.ref THEN "loop" ELSE "off"
    /\ engine_failure = None
    /\ text_queue = IF audio_queue.ref THEN <<Starting>> ELSE <<>>

\* _enqueue_audio(chunk), called by the capture thread for every block
EnqueueAudio ==
    /\ pushed < MaxPushes
    /\ enqueue_outcome \in {None, "returned"}
    /\ pushed' = pushed + 1
    /\ IF ~audio_queue.ref
       THEN /\ enqueue_outcome' = "returned"
            /\ dropped_ids' = dropped_ids \cup {pushed'}
            /\ UNCHANGED <<audio_queue, enqueued_ids, full_at_push>>
       ELSE LET put == PutNowait(audio_queue.items, pushed') IN
            /\ full_at_push' = IF Len(audio_queue.items) >= QueueMaxSize
                               THEN full_at_push \cup {pushed'} ELSE full_at_push
            /\ audio_queue' = [audio_queue EXCEPT !.items = put.queue]
            /\ enqueued_ids' = IF put.exc = None
                               THEN enqueued_ids \cup {pushed'} ELSE enqueued_ids
            /\ dropped_ids' = IF put.exc = "Full"
                              THEN dropped_ids \cup {pushed'} ELSE dropped_ids
            \* except queue.Full: pass -- anything else leaves the call
            /\ enqueue_outcome' = IF put.exc \in {None, "Full"}
                                  THEN "returned" ELSE put.exc
    /\ UNCHANGED <<consumer_paused, consumed>>
    /\ UNCHANGED <<enq_pc, live_pc, engine_failure, text_queue>>
    /\ UNCHANGED notQueue

\* the live worker's live["audio_queue"].get(timeout=0.25) returning a block
WorkerGet ==
    /\ live_pc = "loop"
    /\ ~consumer_paused
    /\ audio_queue.ref
    /\ audio_queue.items # <<>>
    /\ audio_queue' = [audio_queue EXCEPT !.items = Tail(@)]
    /\ consumed' = consumed + 1
    /\ UNCHANGED <<consumer_paused, pushed, enqueued_ids, dropped_ids,
                   full_at_push, enqueue_outcome>>
    /\ UNCHANGED <<enq_pc, live_pc, engine_failure, text_queue>>
    /\ UNCHANGED notQueue

\* the worker held up inside a model.transcribe call, and coming back
PauseConsumer ==
    /\ consumer_paused' = ~consumer_paused
    /\ UNCHANGED <<audio_queue, pushed, enqueued_ids, dropped_ids,
                   full_at_push, consumed, enqueue_outcome>>
    /\ UNCHANGED <<enq_pc, live_pc, engine_failure, text_queue>>
    /\ UNCHANGED notQueue

QueueNext == EnqueueAudio \/ WorkerGet \/ PauseConsumer

CapIdle ==
    /\ mode = "single"
    /\ sample_rate_hz = 1
    /\ channels = 1
    /\ mic_channels = 0
    /\ system_channels = 0
    /\ target_frames = 0
    /\ has_on_chunk = TRUE
    /\ stop_event = FALSE
    /\ cap_pc = "idle"
    /\ handle = None
    /\ frames_written = 0
    /\ delivered = [mic |-> 0, sys |-> 0, flagged |-> 0]
    /\ sleeps = 0
    /\ late_blocks = 0
    /\ chunks = <<>>
    /\ result = None
    /\ duration_seconds = 0
    /\ streams_open = {}
    /\ exit_reason = None
    /\ cap_error = None

(***************************************************************************)
(* Strings as sequences of characters, for the operations on titles.       *)
(***************************************************************************)
\* str.strip()
RECURSIVE LStrip(_)
LStrip(str) ==
    IF str # <<>> /\ Head(str) = " " THEN LStrip(Tail(str)) ELSE str

RECURSIVE RStrip(_)
RStrip(str) ==
    IF str # <<>> /\ str[Len(str)] = " "
    THEN RStrip(SubSeq(str, 1, Len(str) - 1)) ELSE str

Strip(str) == LStrip(RStrip(str))

\* str.replace(" ", "-")
ReplaceSpaces(str) == [i \in 1..Len(str) |-> IF str[i] = " " THEN "-" ELSE str[i]]

\* build_session_basename(title, dt): "<YYYY-MM-DD>--<slug>"
BuildSessionBasename(title, day) ==
    <<day, IF title # <<>> THEN ReplaceSpaces(Strip(title))
           ELSE <<"S", "e", "s", "s", "i", "o", "n">>>>

\* what title_var may hold when a recording starts
Titles == {<<"a">>, <<"a", " ">>, <<"a", " ", "b">>}

(***************************************************************************)
(* The recording workflow: _start_recording, its _worker thread,           *)
(* _stop_recording.                                                        *)
(***************************************************************************)
Workers == 1..MaxWorkers

\* The run of the program that is modelled lies within one day and is
\* shorter than the retention time of recordings; LegacyDay is the day of a
\* recording left by an earlier run.
Today == 0

LegacyDay == Today - 3

\* time.time() during the run, hours
Now == Today * 24

\* the path of the recording an earlier run left behind
LegacyPath == BuildSessionBasename(<<"a">>, LegacyDay)

\* every path of the recordings directory
Paths == {BuildSessionBasename(t, Today) : t \in Titles} \cup {LegacyPath}

\* a file's content is named by the capture that wrote it: the worker's
\* number, Legacy for a recording of an earlier run of the program
Absent == -1

Legacy == 0

\* os.path.getmtime(path), hours, of a file with the given content
MTime(content) == IF content = Legacy THEN LegacyDay * 24 ELSE Now

\* cleanup keeps recordings for 48 hours
RetentionHours == 48

\* the output_path of a worker thread that does not exist
NoOutputPath == <<>>

FinalizingSteps == {"extract", "transcribe", "diarize", "save"}

OrchIdle ==
    /\ recording = FALSE
    /\ start_time = None
    /\ live_stop_event = FALSE
    /\ pc = [w \in Workers |-> "unborn"]
    /\ output_path = [w \in Workers |-> NoOutputPath]
    /\ failed = [w \in Workers |-> None]
    /\ last_status = [w \in Workers |-> None]
    /\ files \in [Paths -> {Absent, Legacy}]
    /\ \A p \in Paths : files[p] = Legacy => p = LegacyPath

\* _stop_live_transcriber(): set the stop event, push the sentinel when a
\* queue exists (any exception swallowed), clear the queue reference
StopLiveTranscriber ==
    /\ live_stop_event' = TRUE
    /\ audio_queue' = NoQueue

\* _set_status(text) by worker w
SetStatus(w, text) == last_status' = [last_status EXCEPT ![w] = text]

\* _start_recording(context_type): returns at once while state["recording"]
\* is set; else marks the recording started and starts a worker thread
StartRecording ==
    /\ \E title \in Titles, w \in Workers :
         /\ pc[w] = "unborn"
         /\ \A v \in Workers : v < w => pc[v] # "unborn"
         /\ IF recording
            THEN UNCHANGED <<recording, start_time, stop_event, pc, output_path>>
            ELSE /\ recording' = TRUE
                 /\ start_time' = "set"
                 /\ stop_event' = FALSE
                 /\ output_path' =
                        [output_path EXCEPT ![w] = BuildSessionBasename(title, Today)]
                 /\ pc' = [pc EXCEPT ![w] = "open"]
    /\ UNCHANGED <<live_stop_event, audio_queue, failed, last_status, files>>
    /\ UNCHANGED notOrch

\* _stop_recording(): ignored unless state["recording"]
StopRecording ==
    /\ IF ~recording
       THEN UNCHANGED <<stop_event, live_stop_event, audio_queue>>
       ELSE /\ stop_event' = TRUE
            /\ StopLiveTranscriber
    /\ UNCHANGED <<recording, start_time, pc, output_path, failed, last_status, files>>
    /\ UNCHANGED notOrch

\* the capture call begins: device resolution or the stream may fail; else
\* wave.open(output_path, "wb") creates or truncates the file
CaptureOpen(w) ==
    /\ pc[w] = "open"
    /\ \/ /\ pc' = [pc EXCEPT ![w] = "except"]
          /\ failed' = [failed EXCEPT ![w] = "capture"]
          /\ UNCHANGED files
       \/ /\ pc' = [pc EXCEPT ![w] = "capturing"]
          /\ files' = [files EXCEPT ![output_path[w]] = w]
          /\ UNCHANGED failed
    /\ UNCHANGED <<recording, start_time, stop_event, live_stop_event, audio_queue,
                   output_path, last_status>>
    /\ UNCHANGED notOrch

\* the capture loop sees stop_event set, the with blocks close streams and
\* file, the RecordingResult is returned
CaptureReturn(w) ==
    /\ pc[w] = "capturing"
    /\ stop_event
    /\ pc' = [pc EXCEPT ![w] = "captured"]
    /\ UNCHANGED <<recording, start_time, stop_event, live_stop_event, audio_queue,
                   output_path, failed, last_status, files>>
    /\ UNCHANGED notOrch

\* a capture call whose error is swallowed: it returns as if it had ended
CaptureRaiseSwallowed(w) ==
    /\ pc[w] = "capturing"
    /\ failed' = [failed EXCEPT ![w] = "capture"]
    /\ pc' = [pc EXCEPT ![w] = "captured"]
    /\ UNCHANGED <<recording, start_time, stop_event, live_stop_event, audio_queue,
                   output_path, last_status, files>>
    /\ UNCHANGED notOrch

\* a hardware error ends the capture call with an exception
CaptureRaise(w) ==
    /\ pc[w] = "capturing"
    /\ failed' = [failed EXCEPT ![w] = "capture"]
    /\ pc' = [pc EXCEPT ![w] = "except"]
    /\ UNCHANGED <<recording, start_time, stop_event, live_stop_event, audio_queue,
                   output_path, last_status, files>>
    /\ UNCHANGED notOrch

\* state["recording"] = False; state["start_time"] = None;
\* _stop_live_transcriber(); _set_status("Transcribing...")
AfterCapture(w) ==
    /\ pc[w] = "captured"
    /\ recording' = FALSE
    /\ start_time' = None
    /\ StopLiveTranscriber
    /\ SetStatus(w, "Transcribing...")
    /\ pc' = [pc EXCEPT ![w] = "extract"]
    /\ UNCHANGED <<stop_event, output_path, failed, files>>
    /\ UNCHANGED notOrch

\* a finalizing step of worker w that returns (to pc value next) or raises
StepOrRaise(w, step, next) ==
    /\ pc[w] = step
    /\ \/ /\ pc' = [pc EXCEPT ![w] = next]
          /\ UNCHANGED failed
       \/ /\ pc' = [pc EXCEPT ![w] = "except"]
          /\ failed' = [failed EXCEPT ![w] = step]

\* extract_channels into the segments directory, when the mode asks for it
Extract(w) ==
    /\ StepOrRaise(w, "extract", "transcribe")
    /\ UNCHANGED <<recording, start_time, stop_event, live_stop_event, audio_queue,
                   output_path, last_status, files>>
    /\ UNCHANGED notOrch

\* transcribe_audio(transcribe_path, ...)
Transcribe(w) ==
    /\ StepOrRaise(w, "transcribe", "diarize")
    /\ UNCHANGED <<recording, start_time, stop_event, live_stop_event, audio_queue,
                   output_path, last_status, files>>
    /\ UNCHANGED notOrch

\* diarize_segments inside its own try: a failure is reported and the
\* workflow goes on with the undiarized segments
Diarize(w) ==
    /\ pc[w] = "diarize"
    /\ pc' = [pc EXCEPT ![w] = "save"]
    /\ \/ /\ SetStatus(w, "Diarization complete")
          /\ UNCHANGED failed
       \/ /\ SetStatus(w, "Diarization failed")
          /\ failed' = [failed EXCEPT ![w] = "diarize"]
    /\ UNCHANGED <<recording, start_time, stop_event, live_stop_event, audio_queue,
                   output_path, files>>
    /\ UNCHANGED notOrch

\* the note and the segments file are written, then Session(...) is called
\* with the keyword timestamped_notes, which the dataclass does not have: the
\* call raises TypeError, so save_session, the "Saved" status and the cleanup
\* after it are never reached
Save(w) ==
    /\ pc[w] = "save"
    /\ pc' = [pc EXCEPT ![w] = "except"]
    /\ failed' = [failed EXCEPT ![w] = "save"]
    /\ UNCHANGED <<recording, start_time, stop_event, live_stop_event, audio_queue,
                   output_path, last_status, files>>
    /\ UNCHANGED notOrch

\* _cleanup_recordings(root, hours=48): os.remove every .wav whose mtime is
\* before now - 48 h (its call at the end of _worker is behind the Session
\* call that raises)
CleanupRecordings ==
    [p \in Paths |-> IF files[p] # Absent /\ MTime(files[p]) < Now - RetentionHours
                     THEN Absent ELSE files[p]]

\* except Exception as exc: _set_status(f"Recording failed: {exc}")
ExceptHandlerRollback(w) ==
    /\ pc[w] = "except"
    /\ SetStatus(w, "Recording failed")
    /\ files' = [files EXCEPT ![output_path[w]] = Absent]
    /\ pc' = [pc EXCEPT ![w] = "finally"]
    /\ UNCHANGED <<recording, start_time, stop_event, live_stop_event, audio_queue,
                   output_path, failed>>
    /\ UNCHANGED notOrch

\* the handler without its _set_status call
ExceptHandlerSilent(w) ==
    /\ pc[w] = "except"
    /\ pc' = [pc EXCEPT ![w] = "finally"]
    /\ UNCHANGED <<recording, start_time, stop_event, live_stop_event, audio_queue,
                   output_path, failed, last_status, files>>
    /\ UNCHANGED notOrch

ExceptHandler(w) ==
    /\ pc[w] = "except"
    /\ SetStatus(w, "Recording failed")
    /\ pc' = [pc EXCEPT ![w] = "finally"]
    /\ UNCHANGED <<recording, start_time, stop_event, live_stop_event, audio_queue,
                   output_path, failed, files>>
    /\ UNCHANGED notOrch

\* finally: recording flag and start time cleared, live transcriber stopped;
\* the thread ends and its locals with it
FinallyBlock(w) ==
    /\ pc[w] = "finally"
    /\ recording' = FALSE
    /\ start_time' = None
    /\ StopLiveTranscriber
    /\ pc' = [pc EXCEPT ![w] = "unborn"]
    /\ output_path' = [output_path EXCEPT ![w] = NoOutputPath]
    /\ failed' = [failed EXCEPT ![w] = None]
    /\ last_status' = [last_status EXCEPT ![w] = None]
    /\ UNCHANGED <<stop_event, files>>
    /\ UNCHANGED notOrch

WorkerStep(w) ==
    \/ CaptureOpen(w) \/ CaptureReturn(w) \/ CaptureRaise(w)
    \/ AfterCapture(w) \/ Extract(w) \/ Transcribe(w) \/ Diarize(w) \/ Save(w)
    \/ ExceptHandler(w) \/ FinallyBlock(w)

OrchNext ==
    \/ StartRecording
    \/ StopRecording
    \/ \E w \in Workers : WorkerStep(w)

(***************************************************************************)
(* Channel extraction (audio_utils.extract_channels).  A wave file is a    *)
(* header and its interleaved 16-bit samples; a path that does not exist   *)
(* holds NoFile.                                                           *)
(***************************************************************************)
SampleWidths == {1, 2}

NoFile == [nchannels |-> 0, sampwidth |-> 0, framerate |-> 0, samples |-> <<>>]

Exists(file) == file.nchannels > 0

\* an input of nch channels and n frames whose samples all differ
WaveFile(nch, width, rate, n) ==
    [nchannels |-> nch, sampwidth |-> width, framerate |-> rate,
     samples |-> [k \in 1..(n * nch) |-> k]]

\* a file left at the output path by an earlier run
StaleFile == [WaveOpen(1, 1) EXCEPT !.samples = <<-1>>]

ExPaths == {"in", "out", "pair", "chained"}

ExCalls == {"direct", "pair", "chained"}

\* the index lists a caller may pass: in range, negative, too large, repeated
IndexLists == UNION {[1..n -> -1..MaxExChannels] : n \in 0..MaxKeep}

\* handle.readframes(n)
ReadFrames(h, n) == SubSeq(h.samples, 1, n * h.nchannels)

\* the samples regrouped channel after channel instead of frame after frame
ReshapePlanar(data, ncols) ==
    [i \in 1..(Len(data) \div ncols) |->
        [c \in 1..ncols |-> data[(c - 1) * (Len(data) \div ncols) + i]]]

\* np.frombuffer(raw, int16).reshape(-1, channels): one row per frame
Reshape(data, ncols) ==
    [i \in 1..(Len(data) \div ncols) |->
        [c \in 1..ncols |-> data[(i - 1) * ncols + c]]]

\* every index forced into range instead of filtered
KeepClamped(idxs, nch) ==
    [k \in 1..Len(idxs) |->
        IF idxs[k] < 0 THEN 0 ELSE IF idxs[k] >= nch THEN nch - 1 ELSE idxs[k]]

\* keep = [idx for idx in channels_to_keep if 0 <= idx < channels]
Keep(idxs, nch) == SelectSeq(idxs, LAMBDA idx : 0 <= idx /\ idx < nch)

\* the columns keep names, last first
SliceReversed(rows, keep) ==
    [i \in 1..Len(rows) |->
        [j \in 1..Len(keep) |-> rows[i][keep[Len(keep) + 1 - j] + 1]]]

\* data[:, keep]
Slice(rows, keep) ==
    [i \in 1..Len(rows) |-> [j \in 1..Len(keep) |-> rows[i][keep[j] + 1]]]

Only16Bit == "Only 16-bit PCM is supported for channel extraction."

NoValidChannels == "No valid channels selected."

FileNotFound == "FileNotFoundError"

\* extract_channels on the file at its input path: the error it raises, or
\* None and the file it writes; the output is opened after both checks
ExtractChannels(input, idxs) ==
    IF ~Exists(input) THEN [error |-> FileNotFound, out |-> NoFile]
    ELSE IF input.sampwidth # 2 THEN [error |-> Only16Bit, out |-> NoFile]
    ELSE LET data == Reshape(ReadFrames(input, NFrames(input)), input.nchannels)
             keep == Keep(idxs, input.nchannels)
         IN  IF keep = <<>>
             THEN [error |-> NoValidChannels, out |-> NoFile]
             ELSE [error |-> None,
                   out |-> WriteFrames(WaveOpen(Len(keep), input.framerate),
                                       ToBytes(Slice(data, keep)))]

ExtractIdle ==
    /\ fs = [p \in ExPaths |-> NoFile]
    /\ channels_to_keep = <<>>
    /\ out_before = NoFile
    /\ ex_called = {}
    /\ ex_error = [c \in ExCalls |-> None]

ExtractInit ==
    /\ \E nch \in 1..MaxExChannels, n \in 0..MaxExFrames,
          width \in SampleWidths, rate \in SampleRates :
          fs \in {[p \in ExPaths |->
                     IF p = "in" THEN WaveFile(nch, width, rate, n)
                     ELSE IF p = "out" THEN old ELSE NoFile]
                  : old \in {NoFile, StaleFile}}
    /\ out_before = fs["out"]
    /\ channels_to_keep \in IndexLists
    /\ ex_called = {}
    /\ ex_error = [c \in ExCalls |-> None]

\* one call extract_channels(src_path, dst_path, idxs)
Call(name, src_path, dst_path, idxs) ==
    LET r == ExtractChannels(fs[src_path], idxs) IN
    /\ ex_called' = ex_called \cup {name}
    /\ ex_error' = [ex_error EXCEPT ![name] = r.error]
    /\ fs' = IF r.error = None THEN [fs EXCEPT ![dst_path] = r.out] ELSE fs
    /\ UNCHANGED <<channels_to_keep, out_before>>
    /\ UNCHANGED notExtract

\* extract_channels(original, out, channels_to_keep)
ExtractDirect ==
    /\ "direct" \notin ex_called
    /\ Call("direct", "in", "out", channels_to_keep)

\* extract_channels(original, pair, [0, 1])
ExtractPair ==
    /\ "pair" \notin ex_called
    /\ Call("pair", "in", "pair", <<0, 1>>)

\* extract_channels(pair, chained, [0])
ExtractChained ==
    /\ "pair" \in ex_called
    /\ "chained" \notin ex_called
    /\ Call("chained", "pair", "chained", <<0>>)

ExtractNext == ExtractDirect \/ ExtractPair \/ ExtractChained

(***************************************************************************)
(* Device selection (recorder.select_preferred_device).  Names are         *)
(* sequences of characters; a device is its name and its index.            *)
(***************************************************************************)
UpperCase == <<"A", "B", "C", "D", "E", "F", "G", "H", "I", "J", "K", "L", "M", "N", "O", "P", "Q", "R", "S", "T", "U", "V", "W", "X", "Y", "Z">>

LowerCase == <<"a", "b", "c", "d", "e", "f", "g", "h", "i", "j", "k", "l", "m", "n", "o", "p", "q", "r", "s", "t", "u", "v", "w", "x", "y", "z">>

LowerChar(c) ==
    IF \E i \in 1..Len(UpperCase) : UpperCase[i] = c
    THEN LowerCase[CHOOSE i \in 1..Len(UpperCase) : UpperCase[i] = c]
    ELSE c

\* str.lower()
Lower(str) == [i \in 1..Len(str) |-> LowerChar(str[i])]

\* sub in str
In(sub, str) ==
    \E k \in 0..(Len(str) - Len(sub)) : SubSeq(str, k + 1, k + Len(sub)) = sub

ZOOM_NAME_MARKERS ==
    {<<"z", "o", "o", "m", " ", "h", "2">>,
     <<"z", "o", "o", "m", " ", "h", "4">>,
     <<"z", "o", "o", "m", " ", "h", " ", "s", "e", "r", "i", "e", "s">>,
     <<"z", "o", "o", "m", " ", "r", "e", "c", "o", "r", "d", "i", "n", "g", " ", "m", "i", "x", "e", "r">>,
     <<"z", "o", "o", "m", " ", "h", " ", "s", "e", "r", "i", "e", "s", " ", "a", "u", "d", "i", "o">>,
     <<"z", "o", "o", "m", " ", "h", " ", "s", "e", "r", "i", "e", "s", " ", "a", "s", "i", "o">>}

DevicePool ==
    {[name |-> <<"B", "u", "i", "l", "t", "-", "i", "n", " ", "M", "i", "c">>, index |-> 1],
     [name |-> <<"Z", "O", "O", "M", " ", "H", "2", " ", "H", "a", "n", "d", "y", " ", "R", "e", "c", "o", "r", "d", "e", "r">>, index |-> 2],
     [name |-> <<"Z", "o", "o", "m", " ", "H", "4">>, index |-> 3],
     [name |-> <<"U", "S", "B", " ", "M", "i", "c">>, index |-> 4],
     [name |-> <<"U", "S", "B", " ", "M", "i", "c">>, index |-> 5]}

PreferNames ==
    {<<>>,
     <<"z", "o", "o", "m", " ", "h", "2">>,
     <<"U", "s", "b">>,
     <<"m", "i", "c">>,
     <<"Z", "o", "o", "m">>,
     <<"h", "4">>,
     <<"l", "i", "n", "e", " ", "i", "n">>}

\* the enumerations: devices of the pool, each at most once, in any order
CandidateLists ==
    UNION {{c \in [1..n -> DevicePool] :
               \A i, j \in 1..n : i # j => c[i] # c[j]} : n \in 0..MaxDevices}

NoDevice == [name |-> <<>>, index |-> -1]

NoInputDevices == "No input devices found."

HasMarker(name) == \E marker \in ZOOM_NAME_MARKERS : In(marker, name)

\* the name of the last device whose name holds a marker
FindZoomNameLast(cands) ==
    LET hits == {k \in 1..Len(cands) : HasMarker(Lower(cands[k].name))} IN
    IF hits = {} THEN <<>>
    ELSE cands[CHOOSE k \in hits : \A j \in hits : j <= k].name

\* find_zoom_name_from_candidates: the name of the first device whose
\* lower-cased name holds a marker, the empty string standing for None
FindZoomNameFromCandidates(cands) ==
    LET hits == {k \in 1..Len(cands) : HasMarker(Lower(cands[k].name))} IN
    IF hits = {} THEN <<>>
    ELSE cands[CHOOSE k \in hits : \A j \in hits : k <= j].name

\* next(d for d in candidates if d.get("name") == name)
FirstNamed(cands, name) ==
    cands[CHOOSE k \in 1..Len(cands) :
             /\ cands[k].name = name
             /\ \A j \in 1..(k - 1) : cands[j].name # name]

\* the resolver without its marker scan
SelectPreferredDeviceFirst(cands, prefer) ==
    IF cands = <<>> THEN [error |-> NoInputDevices, device |-> NoDevice]
    ELSE LET preferred ==
                 SelectSeq(cands, LAMBDA d : In(Lower(prefer), Lower(d.name)))
         IN  IF prefer # <<>> /\ preferred # <<>>
             THEN [error |-> None, device |-> preferred[1]]
             ELSE [error |-> None, device |-> cands[1]]

\* the resolver treating an unmatched fragment as fatal
SelectPreferredDeviceStrict(cands, prefer) ==
    IF cands = <<>> THEN [error |-> NoInputDevices, device |-> NoDevice]
    ELSE LET preferred ==
                 SelectSeq(cands, LAMBDA d : In(Lower(prefer), Lower(d.name)))
             zoom == FindZoomNameFromCandidates(cands)
         IN  IF prefer # <<>> /\ preferred # <<>>
             THEN [error |-> None, device |-> preferred[1]]
             ELSE IF prefer # <<>>
             THEN [error |-> "Device not matched.", device |-> NoDevice]
             ELSE IF zoom # <<>>
             THEN [error |-> None, device |-> FirstNamed(cands, zoom)]
             ELSE [error |-> None, device |-> cands[1]]

\* select_preferred_device: the error it raises, or None and the device
SelectPreferredDevice(cands, prefer) ==
    IF cands = <<>> THEN [error |-> NoInputDevices, device |-> NoDevice]
    ELSE LET preferred ==
                 SelectSeq(cands, LAMBDA d : In(Lower(prefer), Lower(d.name)))
             zoom == FindZoomNameFromCandidates(cands)
         IN  IF prefer # <<>> /\ preferred # <<>>
             THEN [error |-> None, device |-> preferred[1]]
             ELSE IF zoom # <<>>
             THEN [error |-> None, device |-> FirstNamed(cands, zoom)]
             ELSE [error |-> None, device |-> cands[1]]

DeviceIdle ==
    /\ candidates = <<>>
    /\ prefer_name = <<>>
    /\ dev_pc = "idle"
    /\ selected = NoDevice
    /\ dev_error = None
    /\ zoom_name = [called |-> FALSE, name |-> <<>>]

DeviceInit ==
    /\ candidates \in CandidateLists
    /\ prefer_name \in PreferNames
    /\ dev_pc = "ready"
    /\ selected = NoDevice
    /\ dev_error = None
    /\ zoom_name = [called |-> FALSE, name |-> <<>>]

SelectDevice ==
    LET r == SelectPreferredDevice(candidates, prefer_name) IN
    /\ dev_pc = "ready"
    /\ dev_pc' = "done"
    /\ selected' = r.device
    /\ dev_error' = r.error
    /\ UNCHANGED <<candidates, prefer_name, zoom_name>>
    /\ UNCHANGED notDevice

\* one call find_zoom_name_from_candidates(candidates)
FindZoomName ==
    /\ dev_pc # "idle"
    /\ ~zoom_name.called
    /\ zoom_name' = [called |-> TRUE, name |-> FindZoomNameFromCandidates(candidates)]
    /\ UNCHANGED <<candidates, prefer_name, dev_pc, selected, dev_error>>
    /\ UNCHANGED notDevice

DeviceNext == SelectDevice \/ FindZoomName

(***************************************************************************)
(* The live transcriber from its start to its stop: the worker's start-up,  *)
(* the capture thread's hand-off as the two reads of live["audio_queue"]   *)
(* it makes, and _stop_live_transcriber run by another thread.             *)
(***************************************************************************)
\* _start_live_transcriber has run: it returns at once when live
\* transcription is not enabled, else it creates the queue, announces the
\* start on the text queue and starts the worker thread
LiveInit ==
    /\ audio_queue \in {NoQueue, [ref |-> TRUE, items |-> <<>>]}
    /\ consumer_paused = FALSE
    /\ pushed = 0
    /\ enqueued_ids = {}
    /\ dropped_ids = {}
    /\ full_at_push = {}
    /\ consumed = 0
    /\ enqueue_outcome = None
    /\ enq_pc = "idle"
    /\ live_pc = IF audio_queue.ref THEN "import" ELSE "off"
    /\ engine_failure = None
    /\ text_queue = IF audio_queue.ref THEN <<Starting>> ELSE <<>>

\* _worker: import numpy, faster_whisper inside try/except Exception
WorkerImport ==
    /\ live_pc = "import"
    /\ \E ok \in BOOLEAN :
         IF ok
         THEN /\ live_pc' = "load"
              /\ UNCHANGED <<engine_failure, text_queue>>
         ELSE /\ text_queue' = Append(text_queue, Unavailable)
              /\ engine_failure' = "import"
              /\ live_pc' = "exited"
    /\ UNCHANGED <<audio_queue, consumer_paused, pushed, enqueued_ids, dropped_ids,
                   full_at_push, consumed, enqueue_outcome, enq_pc>>
    /\ UNCHANGED notQueue

\* _worker: model = WhisperModel(model_name, **kwargs), outside any try
WorkerLoadModel ==
    /\ live_pc = "load"
    /\ \E ok \in BOOLEAN :
         IF ok
         THEN /\ live_pc' = "loop"
              /\ UNCHANGED engine_failure
         ELSE /\ engine_failure' = "load"
              /\ live_pc' = "raised"
    /\ UNCHANGED <<audio_queue, consumer_paused, pushed, enqueued_ids, dropped_ids,
                   full_at_push, consumed, enqueue_outcome, enq_pc, text_queue>>
    /\ UNCHANGED notQueue

\* _enqueue_audio: if live["audio_queue"] is None: return
EnqueueCheck ==
    /\ pushed < MaxPushes
    /\ enq_pc = "idle"
    /\ enqueue_outcome \in {None, "returned"}
    /\ pushed' = pushed + 1
    /\ IF ~audio_queue.ref
       THEN /\ enqueue_outcome' = "returned"
            /\ dropped_ids' = dropped_ids \cup {pushed'}
            /\ UNCHANGED enq_pc
       ELSE /\ enq_pc' = "checked"
            /\ enqueue_outcome' = None
            /\ UNCHANGED dropped_ids
    /\ UNCHANGED <<audio_queue, consumer_paused, enqueued_ids, full_at_push,
                   consumed, live_pc, engine_failure, text_queue>>
    /\ UNCHANGED notQueue

\* _enqueue_audio: live["audio_queue"].put_nowait(chunk) under
\* except queue.Full; the reference is read again, and put_nowait on None
\* raises AttributeError, which the handler does not catch
EnqueuePut ==
    /\ enq_pc = "checked"
    /\ enq_pc' = "idle"
    /\ IF ~audio_queue.ref
       THEN /\ enqueue_outcome' = "AttributeError"
            /\ UNCHANGED <<audio_queue, enqueued_ids, dropped_ids, full_at_push>>
       ELSE LET put == PutNowait(audio_queue.items, pushed) IN
            /\ full_at_push' = IF Len(audio_queue.items) >= QueueMaxSize
                               THEN full_at_push \cup {pushed} ELSE full_at_push
            /\ audio_queue' = [audio_queue EXCEPT !.items = put.queue]
            /\ enqueued_ids' = IF put.exc = None
                               THEN enqueued_ids \cup {pushed} ELSE enqueued_ids
            /\ dropped_ids' = IF put.exc = "Full"
                              THEN dropped_ids \cup {pushed} ELSE dropped_ids
            /\ enqueue_outcome' = IF put.exc \in {None, "Full"}
                                  THEN "returned" ELSE put.exc
    /\ UNCHANGED <<consumer_paused, pushed, consumed, live_pc, engine_failure,
                   text_queue>>
    /\ UNCHANGED notQueue

\* _stop_live_transcriber run by the GUI thread or the recording worker
StopLive ==
    /\ ~live_stop_event
    /\ StopLiveTranscriber
    /\ UNCHANGED <<recording, start_time, pc, output_path, failed, last_status,
                   files>>
    /\ UNCHANGED <<capVars, queueOnly, extractVars, deviceVars, startVars, configVars, renderVars, workerVars, finalVars, diarVars, timelineVars, saveVars>>

LiveNext ==
    \/ WorkerImport \/ WorkerLoadModel
    \/ EnqueueCheck \/ EnqueuePut
    \/ WorkerGet \/ PauseConsumer
    \/ StopLive

(***************************************************************************)
(* The live worker's loop (gui.py 923-983) with the threads around it: the *)
(* capture thread handing blocks over, the GUI thread and the recording    *)
(* worker calling _stop_live_transcriber, and the recording worker going   *)
(* on to transcribe_audio.  Frames are numbered in the order of capture;   *)
(* the Queue object lives on after live["audio_queue"] is set to None.     *)
(***************************************************************************)
MaxChunk == 5

MaxLiveFrames == 15

LiveRates == {1, 2}

\* blocks the capture delivers: short ones and long ones
ChunkSizes == {MaxChunk - 2, MaxChunk}

\* the None that _stop_live_transcriber puts into the queue
Sentinel == <<>>

\* chunk_samples = int(sample_rate_hz * 4)
ChunkSamples(rate) == rate * 4

\* overlap_samples = int(sample_rate_hz * 0.5)
OverlapSamples(rate) == rate \div 2

\* the body of the slicing loop with the overlap dropped
SliceWindowNoOverlap(buf, rate) ==
    [segment |-> SubSeq(buf, 1, ChunkSamples(rate)),
     buffer |-> SubSeq(buf, ChunkSamples(rate) + 1, Len(buf))]

\* segment = buffer[:chunk_samples]; buffer = buffer[chunk_samples -
\* overlap_samples:] when overlap_samples > 0, else buffer[chunk_samples:]
SliceWindow(buf, rate) ==
    [segment |-> SubSeq(buf, 1, ChunkSamples(rate)),
     buffer |-> IF OverlapSamples(rate) > 0
                THEN SubSeq(buf, ChunkSamples(rate) - OverlapSamples(rate) + 1, Len(buf))
                ELSE SubSeq(buf, ChunkSamples(rate) + 1, Len(buf))]

EngineCall(who, kind, frames) == [who |-> who, kind |-> kind, frames |-> frames]

WorkerIdle ==
    /\ live_rate = 1
    /\ wq_ref = FALSE
    /\ wq_items = <<>>
    /\ w_stop = FALSE
    /\ w_pc = "idle"
    /\ buffer = <<>>
    /\ taken = <<>>
    /\ engine_log = <<>>
    /\ in_engine = {}
    /\ rec_pc = "idle"
    /\ produced = 0

\* _start_live_transcriber has created the queue and the worker has loaded
\* its model; the recording is capturing
WorkerInit ==
    /\ live_rate \in LiveRates
    /\ wq_ref = TRUE
    /\ wq_items = <<>>
    /\ w_stop = FALSE
    /\ w_pc = "loop"
    /\ buffer = <<>>
    /\ taken = <<>>
    /\ engine_log = <<>>
    /\ in_engine = {}
    /\ rec_pc = "capturing"
    /\ produced = 0

\* the capture thread: _enqueue_audio(chunk) for the next block
CaptureDelivers ==
    /\ rec_pc \in {"capturing", "stopping"}
    /\ \E size \in ChunkSizes :
         /\ produced + size <= MaxLiveFrames
         /\ produced' = produced + size
         /\ wq_items' =
              IF wq_ref
              THEN PutNowait(wq_items, [i \in 1..size |-> produced + i]).queue
              ELSE wq_items
    /\ UNCHANGED <<live_rate, wq_ref, w_stop, w_pc, buffer, taken, engine_log,
                   in_engine, rec_pc>>
    /\ UNCHANGED notWorker

\* _stop_live_transcriber(): stop event set; put_nowait(None) when the
\* reference is there, queue.Full swallowed; the reference cleared
StopLiveWorker ==
    /\ w_stop' = TRUE
    /\ wq_items' = IF wq_ref THEN PutNowait(wq_items, Sentinel).queue ELSE wq_items
    /\ wq_ref' = FALSE

\* _stop_recording on the GUI thread
GuiStop ==
    /\ rec_pc = "capturing"
    /\ StopLiveWorker
    /\ rec_pc' = "stopping"
    /\ UNCHANGED <<live_rate, w_pc, buffer, taken, engine_log, in_engine, produced>>
    /\ UNCHANGED notWorker

\* the recording worker after the capture call has returned: lines 1261-1264
AfterCaptureStop ==
    /\ rec_pc = "stopping"
    /\ StopLiveWorker
    /\ rec_pc' = "stopped"
    /\ UNCHANGED <<live_rate, w_pc, buffer, taken, engine_log, in_engine, produced>>
    /\ UNCHANGED notWorker

\* the recording worker enters transcribe_audio, after the extraction
TranscribeAudioBegins ==
    /\ rec_pc = "stopped"
    /\ rec_pc' = "transcribing"
    /\ in_engine' = in_engine \cup {"full"}
    /\ engine_log' = Append(engine_log, EngineCall("full", "file", <<>>))
    /\ UNCHANGED <<live_rate, wq_ref, wq_items, w_stop, w_pc, buffer, taken, produced>>
    /\ UNCHANGED notWorker

TranscribeAudioReturns ==
    /\ rec_pc = "transcribing"
    /\ rec_pc' = "done"
    /\ in_engine' = in_engine \ {"full"}
    /\ UNCHANGED <<live_rate, wq_ref, wq_items, w_stop, w_pc, buffer, taken,
                   engine_log, produced>>
    /\ UNCHANGED notWorker

\* the worker evaluates live["audio_queue"].get: on None the attribute
\* access raises AttributeError, which nothing in _worker catches
WorkerReadsReference ==
    /\ w_pc = "loop"
    /\ w_pc' = IF wq_ref THEN "get" ELSE "raised"
    /\ UNCHANGED <<live_rate, wq_ref, wq_items, w_stop, buffer, taken, engine_log,
                   in_engine, rec_pc, produced>>
    /\ UNCHANGED notWorker

\* Queue.get(timeout=0.25) on the object the worker holds: an item, or
\* queue.Empty; a None item or a timeout ends the loop when the stop event
\* is set; a block is appended to the buffer
WorkerGetReturns ==
    /\ w_pc = "get"
    /\ IF wq_items = <<>> \/ Head(wq_items) = Sentinel
       THEN /\ w_pc' = IF w_stop THEN "flush" ELSE "loop"
            /\ UNCHANGED <<buffer, taken>>
       ELSE /\ buffer' = buffer \o Head(wq_items)
            /\ taken' = taken \o Head(wq_items)
            /\ w_pc' = "slice"
    /\ wq_items' = IF wq_items = <<>> THEN <<>> ELSE Tail(wq_items)
    /\ UNCHANGED <<live_rate, wq_ref, w_stop, engine_log, in_engine, rec_pc, produced>>
    /\ UNCHANGED notWorker

\* while buffer.shape[0] >= chunk_samples: slice and call model.transcribe
WorkerSlices ==
    /\ w_pc = "slice"
    /\ IF Len(buffer) >= ChunkSamples(live_rate)
       THEN /\ buffer' = SliceWindow(buffer, live_rate).buffer
            /\ engine_log' = Append(engine_log,
                   EngineCall("live", "window", SliceWindow(buffer, live_rate).segment))
            /\ in_engine' = in_engine \cup {"live"}
            /\ w_pc' = "engine"
       ELSE /\ w_pc' = "loop"
            /\ UNCHANGED <<buffer, engine_log, in_engine>>
    /\ UNCHANGED <<live_rate, wq_ref, wq_items, w_stop, taken, rec_pc, produced>>
    /\ UNCHANGED notWorker

\* model.transcribe returns or raises: either way the slicing loop goes on
WorkerEngineReturns ==
    /\ w_pc = "engine"
    /\ w_pc' = "slice"
    /\ in_engine' = in_engine \ {"live"}
    /\ UNCHANGED <<live_rate, wq_ref, wq_items, w_stop, buffer, taken, engine_log,
                   rec_pc, produced>>
    /\ UNCHANGED notWorker

\* after the loop: if buffer.shape[0] > 0, model.transcribe(remainder)
WorkerFlushes ==
    /\ w_pc = "flush"
    /\ IF buffer # <<>>
       THEN /\ engine_log' = Append(engine_log, EngineCall("live", "remainder", buffer))
            /\ in_engine' = in_engine \cup {"live"}
            /\ w_pc' = "flush_engine"
       ELSE /\ w_pc' = "exited"
            /\ UNCHANGED <<engine_log, in_engine>>
    /\ UNCHANGED <<live_rate, wq_ref, wq_items, w_stop, buffer, taken, rec_pc, produced>>
    /\ UNCHANGED notWorker

WorkerFlushReturns ==
    /\ w_pc = "flush_engine"
    /\ w_pc' = "exited"
    /\ in_engine' = in_engine \ {"live"}
    /\ UNCHANGED <<live_rate, wq_ref, wq_items, w_stop, buffer, taken, engine_log,
                   rec_pc, produced>>
    /\ UNCHANGED notWorker

WorkerNext ==
    \/ CaptureDelivers \/ GuiStop \/ AfterCaptureStop
    \/ TranscribeAudioBegins \/ TranscribeAudioReturns
    \/ WorkerReadsReference \/ WorkerGetReturns \/ WorkerSlices
    \/ WorkerEngineReturns \/ WorkerFlushes \/ WorkerFlushReturns

(***************************************************************************)
(* Configuration (config.py): save_config writes a Config as a YAML        *)
(* document with yaml.safe_dump, load_config reads it back with            *)
(* yaml.safe_load.  A text is a sequence of characters.  A Python value is *)
(* None, a bool, an int or a str; a YAML scalar is a text in plain or      *)
(* quoted style, and a plain scalar is resolved to a type by its text      *)
(* when it is loaded.                                                      *)
(***************************************************************************)
PyNone == [t |-> "null", s |-> <<>>, n |-> 0, b |-> FALSE]

PyBool(b) == [t |-> "bool", s |-> <<>>, n |-> 0, b |-> b]

PyInt(n) == [t |-> "int", s |-> <<>>, n |-> n, b |-> FALSE]

PyStr(s) == [t |-> "str", s |-> s, n |-> 0, b |-> FALSE]

Digits == <<"0", "1", "2", "3", "4", "5", "6", "7", "8", "9">>

DigitValue(c) == CHOOSE d \in 0..9 : Digits[d + 1] = c

IsDigit(c) == \E d \in 0..9 : Digits[d + 1] = c

\* str(n) for n >= 0, as the representer writes an int
RECURSIVE IntText(_)
IntText(n) ==
    IF n < 10 THEN <<Digits[n + 1]>>
    ELSE Append(IntText(n \div 10), Digits[(n % 10) + 1])

\* int(text, base) of a text of digits
RECURSIVE ParseDigits(_, _)
ParseDigits(text, base) ==
    IF text = <<>> THEN 0
    ELSE ParseDigits(SubSeq(text, 1, Len(text) - 1), base) * base
         + DigitValue(text[Len(text)])

\* the texts the YAML 1.1 resolver takes for null and for the booleans
NullTexts == {<<>>, <<"~">>, <<"n", "u", "l", "l">>}

TrueTexts == {<<"t", "r", "u", "e">>, <<"y", "e", "s">>, <<"o", "n">>}

FalseTexts == {<<"f", "a", "l", "s", "e">>, <<"n", "o">>, <<"o", "f", "f">>}

\* the resolver's integers: 0, a decimal without a leading zero, or an
\* octal written with a leading zero
IsOctalText(text) ==
    /\ Len(text) > 1
    /\ text[1] = "0"
    /\ \A i \in 2..Len(text) : IsDigit(text[i]) /\ DigitValue(text[i]) <= 7

IsDecimalText(text) ==
    /\ Len(text) > 0
    /\ \A i \in 1..Len(text) : IsDigit(text[i])
    /\ Len(text) > 1 => text[1] # "0"

\* the value safe_load constructs from a scalar
Construct(node) ==
    IF node.style = "quoted" THEN PyStr(node.text)
    ELSE IF node.text \in NullTexts THEN PyNone
    ELSE IF node.text \in TrueTexts THEN PyBool(TRUE)
    ELSE IF node.text \in FalseTexts THEN PyBool(FALSE)
    ELSE IF IsOctalText(node.text)
         THEN PyInt(ParseDigits(SubSeq(node.text, 2, Len(node.text)), 8))
    ELSE IF IsDecimalText(node.text) THEN PyInt(ParseDigits(node.text, 10))
    ELSE PyStr(node.text)

\* a representer that writes every scalar in plain style
RepresentPlain(value) ==
    CASE value.t = "null" -> [style |-> "plain", text |-> <<"n", "u", "l", "l">>]
      [] value.t = "bool" -> [style |-> "plain",
                              text |-> IF value.b THEN <<"t", "r", "u", "e">>
                                       ELSE <<"f", "a", "l", "s", "e">>]
      [] value.t = "int" -> [style |-> "plain", text |-> IntText(value.n)]
      [] value.t = "str" -> [style |-> "plain", text |-> value.s]

\* the scalar safe_dump writes for a value: a str is quoted when the
\* resolver would take its plain text for another type
Represent(value) ==
    CASE value.t = "null" -> [style |-> "plain", text |-> <<"n", "u", "l", "l">>]
      [] value.t = "bool" -> [style |-> "plain",
                              text |-> IF value.b THEN <<"t", "r", "u", "e">>
                                       ELSE <<"f", "a", "l", "s", "e">>]
      [] value.t = "int" -> [style |-> "plain", text |-> IntText(value.n)]
      [] value.t = "str" ->
            IF Construct([style |-> "plain", text |-> value.s]).t = "str"
            THEN [style |-> "plain", text |-> value.s]
            ELSE [style |-> "quoted", text |-> value.s]

\* a dict whose values are scalars, written as a mapping and read back
DumpMapping(d) == [k \in DOMAIN d |-> Represent(d[k])]

LoadMapping(m) == [k \in DOMAIN m |-> Construct(m[k])]

\* the context dict: its keys are scalars too
DumpContext(c) == {<<Represent(kv[1]), Represent(kv[2])>> : kv \in c}

LoadContext(m) == {<<Construct(kv[1]), Construct(kv[2])>> : kv \in m}

\* yaml.safe_dump(data, handle, sort_keys=False)
SafeDump(data) ==
    [base_dir |-> Represent(data.base_dir),
     device_name |-> Represent(data.device_name),
     whisper_model |-> Represent(data.whisper_model),
     language |-> Represent(data.language),
     diarization |-> Represent(data.diarization),
     save_audio |-> Represent(data.save_audio),
     audio |-> DumpMapping(data.audio),
     notes |-> DumpMapping(data.notes),
     personal_ai |-> DumpMapping(data.personal_ai),
     context |-> DumpContext(data.context)]

\* yaml.safe_load(handle)
SafeLoad(doc) ==
    [base_dir |-> Construct(doc.base_dir),
     device_name |-> Construct(doc.device_name),
     whisper_model |-> Construct(doc.whisper_model),
     language |-> Construct(doc.language),
     diarization |-> Construct(doc.diarization),
     save_audio |-> Construct(doc.save_audio),
     audio |-> LoadMapping(doc.audio),
     notes |-> LoadMapping(doc.notes),
     personal_ai |-> LoadMapping(doc.personal_ai),
     context |-> LoadContext(doc.context)]

\* data.get(key, default)
Get(data, key, default) == IF key \in DOMAIN data THEN data[key] ELSE default

\* bool(value)
Bool(value) ==
    CASE value.t = "null" -> PyBool(FALSE)
      [] value.t = "bool" -> value
      [] value.t = "int" -> PyBool(value.n # 0)
      [] value.t = "str" -> PyBool(value.s # <<>>)

\* the defaults of the dataclasses
DefaultAudio ==
    [sample_rate_hz |-> PyInt(44100), bit_depth |-> PyInt(16), channels |-> PyInt(1)]

DefaultNotes ==
    [add_summary_section |-> PyBool(TRUE),
     add_action_items_section |-> PyBool(FALSE),
     embed_audio |-> PyBool(TRUE)]

\* the three prompts stand as one-word texts
DefaultPersonalAI ==
    [enabled |-> PyBool(FALSE), api_key |-> PyNone, domain_name |-> PyNone,
     summary_prompt |-> PyStr(<<"S">>),
     sentiment_prompt |-> PyStr(<<"D">>),
     context_check_prompt |-> PyStr(<<"C">>)]

\* AudioConfig(**d), NotesConfig(**d), PersonalAIConfig(**d): the keys given
\* override the defaults
WithDefaults(defaults, d) ==
    [k \in DOMAIN defaults |-> IF k \in DOMAIN d THEN d[k] ELSE defaults[k]]

DefaultConfig ==
    [base_dir |-> PyStr(<<>>), device_name |-> PyNone,
     whisper_model |-> PyStr(<<"s">>), language |-> PyNone,
     diarization |-> PyBool(FALSE), save_audio |-> PyBool(TRUE),
     audio |-> DefaultAudio, notes |-> DefaultNotes,
     personal_ai |-> DefaultPersonalAI, context |-> {}]

\* save_config: the dict it builds from the Config, field by field
SaveData(c) ==
    [base_dir |-> c.base_dir,
     device_name |-> c.device_name,
     whisper_model |-> c.whisper_model,
     language |-> c.language,
     diarization |-> c.diarization,
     save_audio |-> c.save_audio,
     audio |-> [sample_rate_hz |-> c.audio.sample_rate_hz,
                bit_depth |-> c.audio.bit_depth,
                channels |-> c.audio.channels],
     notes |-> [add_summary_section |-> c.notes.add_summary_section,
                add_action_items_section |-> c.notes.add_action_items_section,
                embed_audio |-> c.notes.embed_audio],
     personal_ai |-> [enabled |-> c.personal_ai.enabled,
                      api_key |-> c.personal_ai.api_key,
                      domain_name |-> c.personal_ai.domain_name,
                      summary_prompt |-> c.personal_ai.summary_prompt,
                      sentiment_prompt |-> c.personal_ai.sentiment_prompt,
                      context_check_prompt |-> c.personal_ai.context_check_prompt],
     context |-> c.context]

\* load_config: the Config it builds from the loaded dict
ConfigFromData(data) ==
    [base_dir |-> Get(data, "base_dir", PyStr(<<>>)),
     device_name |-> Get(data, "device_name", PyNone),
     whisper_model |-> Get(data, "whisper_model", PyStr(<<"s">>)),
     language |-> Get(data, "language", PyNone),
     diarization |-> Bool(Get(data, "diarization", PyBool(FALSE))),
     save_audio |-> Bool(Get(data, "save_audio", PyBool(TRUE))),
     audio |-> WithDefaults(DefaultAudio, Get(data, "audio", <<>>)),
     notes |-> WithDefaults(DefaultNotes, Get(data, "notes", <<>>)),
     personal_ai |-> WithDefaults(DefaultPersonalAI, Get(data, "personal_ai", <<>>)),
     context |-> Get(data, "context", {})]

NoDocument == [exists |-> FALSE]

\* the values the fields of a Config to save are drawn from
PathTexts == {<<"C", ":", "/", "E">>, <<>>}

NameTexts == {<<"Z", "o", "o", "m">>, <<"~">>}

ModelTexts == {<<"s">>, <<"n", "u", "l", "l">>}

LanguageTexts == {<<"e", "n">>, <<"n", "o">>}

KeyTexts == {<<"u">>, <<"o", "n">>}

ContextValues == {PyStr(<<"M">>), PyStr(<<"0", "1", "7">>), PyBool(TRUE)}

Contexts ==
    {c \in SUBSET (({PyStr(k) : k \in KeyTexts}) \X ContextValues) :
        \A kv1 \in c, kv2 \in c : kv1[1] = kv2[1] => kv1 = kv2}

Configs ==
    [base_dir : {PyStr(x) : x \in PathTexts},
     device_name : {PyNone} \cup {PyStr(x) : x \in NameTexts},
     whisper_model : {PyStr(x) : x \in ModelTexts},
     language : {PyNone} \cup {PyStr(x) : x \in LanguageTexts},
     diarization : {PyBool(b) : b \in BOOLEAN},
     save_audio : {PyBool(b) : b \in BOOLEAN},
     audio : [sample_rate_hz : {PyInt(44100)},
              bit_depth : {PyInt(16)},
              channels : {PyInt(n) : n \in 1..MaxChannels}],
     notes : [add_summary_section : {PyBool(b) : b \in BOOLEAN},
              add_action_items_section : {PyBool(FALSE)},
              embed_audio : {PyBool(TRUE)}],
     personal_ai : [enabled : {PyBool(b) : b \in BOOLEAN},
                    api_key : {PyNone, PyStr(<<"0", "9">>)},
                    domain_name : {PyNone},
                    summary_prompt : {PyStr(<<"S">>)},
                    sentiment_prompt : {PyStr(<<"D">>)},
                    context_check_prompt : {PyStr(<<"C">>)}],
     context : Contexts]

ConfigIdle ==
    /\ config = DefaultConfig
    /\ yaml_file = NoDocument
    /\ loaded = None
    /\ cfg_pc = "idle"

ConfigInit ==
    /\ config \in Configs
    /\ yaml_file = NoDocument
    /\ loaded = None
    /\ cfg_pc = "ready"

\* save_config(path, config)
SaveConfig ==
    /\ cfg_pc = "ready"
    /\ yaml_file' = SafeDump(SaveData(config))
    /\ cfg_pc' = "saved"
    /\ UNCHANGED <<config, loaded>>
    /\ UNCHANGED notConfig

\* load_config(path) on the path just saved
LoadConfig ==
    /\ cfg_pc = "saved"
    /\ loaded' = ConfigFromData(SafeLoad(yaml_file))
    /\ cfg_pc' = "loaded"
    /\ UNCHANGED <<config, yaml_file>>
    /\ UNCHANGED notConfig

ConfigNext == SaveConfig \/ LoadConfig

(***************************************************************************)
(* Note rendering (renderer.py).  A text is a sequence of characters, a    *)
(* note is its lines joined by newlines.                                   *)
(***************************************************************************)
\* value.replace(old, new) for a one-character old
RECURSIVE Replace(_, _, _)
Replace(value, old, new) ==
    IF value = <<>> THEN <<>>
    ELSE (IF Head(value) = old THEN new ELSE <<Head(value)>>)
         \o Replace(Tail(value), old, new)

\* _yaml_quote: backslashes doubled, then double quotes escaped, the whole
\* wrapped in double quotes
YamlQuote(value) ==
    <<"\"">>
    \o Replace(Replace(value, "\\", <<"\\", "\\">>), "\"", <<"\\", "\"">>)
    \o <<"\"">>

\* value.split(): the maximal runs of non-blank characters
RECURSIVE Split(_, _)
Split(value, word) ==
    IF value = <<>> THEN (IF word = <<>> THEN <<>> ELSE <<word>>)
    ELSE IF Head(value) = " "
         THEN (IF word = <<>> THEN <<>> ELSE <<word>>) \o Split(Tail(value), <<>>)
         ELSE Split(Tail(value), Append(word, Head(value)))

\* sep.join(parts)
RECURSIVE Join(_, _)
Join(sep, parts) ==
    IF parts = <<>> THEN <<>>
    ELSE IF Len(parts) = 1 THEN parts[1]
    ELSE parts[1] \o sep \o Join(sep, Tail(parts))

\* _clean_text
CleanText(value) == Join(<<" ">>, Split(value, <<>>))

\* the "  - <quoted>" lines of a list entry of the front matter
ListLines(names) == [i \in 1..Len(names) |-> <<" ", " ", "-", " ">> \o YamlQuote(names[i])]

CleanAll(names) == [i \in 1..Len(names) |-> CleanText(names[i])]

\* the date argument and the values the other arguments are drawn from
NoteDate == <<"2", "0", "2", "6", "-", "0", "1", "-", "1", "3">>

NoteTitles == {<<"T", "e", "s", "t">>, <<"a", " ", "\"", "b", "\"">>, <<"x", "\\", "y">>}

AudioFilenames == {<<"t", "e", "s", "t", ".", "w", "a", "v">>, <<"m", "y", " ", "r", "e", "c", ".", "w", "a", "v">>}

NameLists == {<<>>, <<<<"M", "a", "t", "t">>>>, <<<<"M", "a", "t", "t">>, <<"A", "l", " ", "B">>>>}

TagLists == {<<>>, <<<<"r", "e", "s", "e", "a", "r", "c", "h">>>>}

\* render_note(title, date, audio_filename, segments=[], participants, tags,
\* channels) with every other argument left at None: the lines of the front
\* matter, of the session details and of the transcript, joined by newlines
RenderNote(a) ==
    Join(<<"\n">>,
         <<<<"-", "-", "-">>, <<"s", "c", "h", "e", "m", "a", ":", " ", "1">>,
           <<"t", "i", "t", "l", "e", ":", " ">> \o YamlQuote(a.title),
           <<"d", "a", "t", "e", ":", " ">> \o YamlQuote(a.date),
           <<"a", "u", "d", "i", "o", ":", " ">> \o YamlQuote(a.audio_filename)>>
         \o (IF a.participants # <<>>
             THEN <<<<"p", "a", "r", "t", "i", "c", "i", "p", "a", "n", "t", "s", ":">>>> \o ListLines(a.participants) ELSE <<>>)
         \o (IF a.tags # <<>> THEN <<<<"t", "a", "g", "s", ":">>>> \o ListLines(a.tags) ELSE <<>>)
         \o (IF a.channels # 0 THEN <<<<"c", "h", "a", "n", "n", "e", "l", "s", ":", " ">> \o IntText(a.channels)>> ELSE <<>>)
         \o <<<<"-", "-", "-">>, <<>>, <<"#", "#", " ", "S", "e", "s", "s", "i", "o", "n", " ", "D", "e", "t", "a", "i", "l", "s">>, <<>>,
              <<"-", " ", "T", "i", "t", "l", "e", ":", " ">> \o CleanText(a.title),
              <<"-", " ", "D", "a", "t", "e", ":", " ">> \o CleanText(a.date),
              <<"-", " ", "A", "u", "d", "i", "o", ":", " ">> \o CleanText(a.audio_filename)>>
         \o (IF a.participants # <<>>
             THEN <<<<"-", " ", "P", "a", "r", "t", "i", "c", "i", "p", "a", "n", "t", "s", ":", " ">> \o Join(<<",", " ">>, CleanAll(a.participants))>>
             ELSE <<>>)
         \o (IF a.tags # <<>>
             THEN <<<<"-", " ", "T", "a", "g", "s", ":", " ">> \o Join(<<",", " ">>, CleanAll(a.tags))>> ELSE <<>>)
         \o (IF a.channels # 0 THEN <<<<"-", " ", "C", "h", "a", "n", "n", "e", "l", "s", ":", " ">> \o IntText(a.channels)>> ELSE <<>>)
         \o <<<<>>, <<"#", "#", " ", "T", "r", "a", "n", "s", "c", "r", "i", "p", "t">>, <<>>, <<>>>>)

RenderIdle ==
    /\ note_args = [title |-> <<>>, date |-> <<>>, audio_filename |-> <<>>,
                    participants |-> <<>>, tags |-> <<>>, channels |-> 0]
    /\ note = <<>>
    /\ render_pc = "idle"

\* channels 0 stands for an argument left at None
RenderInit ==
    /\ note_args \in [title : NoteTitles, date : {NoteDate},
                      audio_filename : AudioFilenames, participants : NameLists,
                      tags : TagLists, channels : 0..MaxChannels]
    /\ note = <<>>
    /\ render_pc = "ready"

CallRenderNote ==
    /\ render_pc = "ready"
    /\ note' = RenderNote(note_args)
    /\ render_pc' = "rendered"
    /\ UNCHANGED note_args
    /\ UNCHANGED notRender

RenderNext == CallRenderNote

(***************************************************************************)
(* Starting a capture: what becomes of the requested channel count on the  *)
(* CLI record command, the CLI h2 command and the GUI's recording worker.  *)
(* list_input_devices keeps only devices with max_input_channels > 0, so   *)
(* the resolved device reports at least one channel.                       *)
(***************************************************************************)
Entries == {"cli_record", "cli_h2", "gui"}

StartIdle ==
    /\ entry = "cli_record"
    /\ requested = 1
    /\ max_input_channels = 1
    /\ start_pc = "idle"
    /\ passed = 0
    /\ announced = 0
    /\ file_channels = 0
    /\ stream_channels = 0
    /\ start_error = None

StartInit ==
    /\ entry \in Entries
    /\ requested \in 1..MaxRequested
    /\ max_input_channels \in 1..MaxInputChannels
    /\ start_pc = "ready"
    /\ passed = 0
    /\ announced = 0
    /\ file_channels = 0
    /\ stream_channels = 0
    /\ start_error = None

\* the GUI's handler of a change of the mic device: it lowers the channel
\* variable to the device's maximum; the field stays editable afterwards
MicDeviceChange ==
    /\ entry = "gui"
    /\ start_pc = "ready"
    /\ requested > max_input_channels
    /\ requested' = max_input_channels
    /\ UNCHANGED <<entry, max_input_channels, start_pc, passed, announced,
                   file_channels, stream_channels, start_error>>
    /\ UNCHANGED notStart

\* the user types a channel count into the GUI's field
EditChannels ==
    /\ entry = "gui"
    /\ start_pc = "ready"
    /\ \E c \in 1..MaxRequested : c # requested /\ requested' = c
    /\ UNCHANGED <<entry, max_input_channels, start_pc, passed, announced,
                   file_channels, stream_channels, start_error>>
    /\ UNCHANGED notStart

\* cli h2: channels = min(args.channels, max_in) if max_in else args.channels
H2Channels(asked, max_in) ==
    IF max_in # 0 THEN Min(asked, max_in) ELSE asked

\* the channels argument each path hands to the recorder, and what it prints
ResolveChannels ==
    /\ start_pc = "ready"
    /\ start_pc' = "resolved"
    /\ passed' = IF entry = "cli_h2"
                 THEN H2Channels(requested, max_input_channels)
                 ELSE requested
    /\ announced' = IF entry = "cli_h2" /\ passed' # requested THEN passed' ELSE 0
    /\ UNCHANGED <<entry, requested, max_input_channels, file_channels,
                   stream_channels, start_error>>
    /\ UNCHANGED notStart

\* record_audio_stream: wave.open and setnchannels(channels)
OpenFile ==
    /\ start_pc = "resolved"
    /\ start_pc' = "file"
    /\ file_channels' = passed
    /\ UNCHANGED <<entry, requested, max_input_channels, passed, announced,
                   stream_channels, start_error>>
    /\ UNCHANGED notStart

\* sd.InputStream(channels=channels): PortAudio refuses a channel count above
\* the device's maximum
OpenStream ==
    /\ start_pc = "file"
    /\ start_pc' = "done"
    /\ IF passed > max_input_channels
       THEN stream_channels' = 0 /\ start_error' = "PortAudioError"
       ELSE stream_channels' = passed /\ start_error' = None
    /\ UNCHANGED <<entry, requested, max_input_channels, passed, announced,
                   file_channels>>
    /\ UNCHANGED notStart

StartNext ==
    MicDeviceChange \/ EditChannels \/ ResolveChannels \/ OpenFile \/ OpenStream

(***************************************************************************)
(* The finalizing steps of _worker after the capture has returned:         *)
(* channel extraction, full transcription, diarization (gui.py 1267-1330). *)
(***************************************************************************)
MaxMicCount == 3

FinalModes == {"mic", "system", "dual"}

\* os.path.join(out_dir, f"{basename}.wav")
RecordingPath(basename) == [dir |-> "recordings", base |-> basename, ext |-> ".wav"]

\* os.path.join(segments_dir, f"{basename}.mic.wav")
MicOnlyPath(basename) == [dir |-> "segments", base |-> basename, ext |-> ".mic.wav"]

\* os.path.join(segments_dir, f"{basename}.front.wav")
FrontPath(basename) == [dir |-> "segments", base |-> basename, ext |-> ".front.wav"]

NoPath == [dir |-> None, base |-> <<>>, ext |-> None]

\* list(range(0, mic_count))
Range(n) == [i \in 1..n |-> i - 1]

\* what transcribe_audio may return: no segment, or segments without speaker
SegmentLists == {<<>>, <<[text |-> "t1", speaker |-> None]>>,
                 <<[text |-> "t1", speaker |-> None], [text |-> "t2", speaker |-> None]>>}

\* diarize_segments(path, segments, ...): the same segments with a speaker
Diarized(segs) == [i \in 1..Len(segs) |-> [segs[i] EXCEPT !.speaker = "SPEAKER_00"]]

\* an entry of the call history
FinalCall(fn, ev, path, keep, segs) ==
    [fn |-> fn, ev |-> ev, path |-> path, keep |-> keep, segs |-> segs]

FinalIdle ==
    /\ fin_mode = "mic"
    /\ fin_mic_count = 1
    /\ fin_output_path = NoPath
    /\ transcribe_path = NoPath
    /\ segments = <<>>
    /\ fin_pc = "idle"
    /\ fin_calls = <<>>

\* the capture call of _worker has returned its RecordingResult
FinalInit ==
    /\ fin_mode \in FinalModes
    /\ fin_mic_count \in 1..MaxMicCount
    /\ \E title \in Titles :
          fin_output_path = RecordingPath(BuildSessionBasename(title, Today))
    /\ transcribe_path = NoPath
    /\ segments = <<>>
    /\ fin_pc = "captured"
    /\ fin_calls = <<>>

\* transcribe_path = output_path
AssignTranscribePath ==
    /\ fin_pc = "captured"
    /\ transcribe_path' = fin_output_path
    /\ fin_pc' = "branch"
    /\ UNCHANGED <<fin_mode, fin_mic_count, fin_output_path, segments, fin_calls>>
    /\ UNCHANGED notFinal

\* the call extract_channels(output_path, dst, keep) begins
ExtractCall(dst, keep) ==
    /\ fin_calls' = Append(fin_calls, FinalCall("extract", "call", dst, keep, <<>>))
    /\ fin_pc' = "extracting"
    /\ UNCHANGED <<fin_mode, fin_mic_count, fin_output_path, transcribe_path, segments>>
    /\ UNCHANGED notFinal

\* if mode == "dual": extract_channels(output_path, mic_only_path,
\* list(range(0, mic_count)))
ExtractMicOnlyBegins ==
    /\ fin_pc = "branch"
    /\ fin_mode = "dual"
    /\ ExtractCall(MicOnlyPath(fin_output_path.base), Range(fin_mic_count))

\* elif mode == "mic": if mic_count > 2:
\* extract_channels(output_path, front_path, [0, 1])
ExtractFrontBegins ==
    /\ fin_pc = "branch"
    /\ fin_mode = "mic"
    /\ fin_mic_count > 2
    /\ ExtractCall(FrontPath(fin_output_path.base), <<0, 1>>)

\* neither branch: the recording itself is transcribed
NoExtraction ==
    /\ fin_pc = "branch"
    /\ fin_mode # "dual"
    /\ ~(fin_mode = "mic" /\ fin_mic_count > 2)
    /\ fin_pc' = "transcribe"
    /\ UNCHANGED <<fin_mode, fin_mic_count, fin_output_path, transcribe_path, segments,
                   fin_calls>>
    /\ UNCHANGED notFinal

\* an extraction that returns and leaves transcribe_path as it was
ExtractReturnsKeepsPath ==
    /\ fin_pc = "extracting"
    /\ fin_calls' = Append(fin_calls,
                           FinalCall("extract", "return", fin_calls[Len(fin_calls)].path,
                                fin_calls[Len(fin_calls)].keep, <<>>))
    /\ fin_pc' = "transcribe"
    /\ UNCHANGED <<fin_mode, fin_mic_count, fin_output_path, transcribe_path, segments>>
    /\ UNCHANGED notFinal

\* extract_channels returns: transcribe_path = mic_only_path (front_path)
ExtractReturns ==
    /\ fin_pc = "extracting"
    /\ fin_calls' = Append(fin_calls,
                           FinalCall("extract", "return", fin_calls[Len(fin_calls)].path,
                                fin_calls[Len(fin_calls)].keep, <<>>))
    /\ transcribe_path' = fin_calls[Len(fin_calls)].path
    /\ fin_pc' = "transcribe"
    /\ UNCHANGED <<fin_mode, fin_mic_count, fin_output_path, segments>>
    /\ UNCHANGED notFinal

\* extract_channels raises: the outer handler of _worker takes over
ExtractRaises ==
    /\ fin_pc = "extracting"
    /\ fin_calls' = Append(fin_calls,
                           FinalCall("extract", "raise", fin_calls[Len(fin_calls)].path,
                                fin_calls[Len(fin_calls)].keep, <<>>))
    /\ fin_pc' = "except"
    /\ UNCHANGED <<fin_mode, fin_mic_count, fin_output_path, transcribe_path, segments>>
    /\ UNCHANGED notFinal

\* the call transcribe_audio(transcribe_path, ...) begins
FullTranscribeBegins ==
    /\ fin_pc = "transcribe"
    /\ fin_calls' = Append(fin_calls,
                           FinalCall("transcribe", "call", transcribe_path, <<>>, <<>>))
    /\ fin_pc' = "transcribing"
    /\ UNCHANGED <<fin_mode, fin_mic_count, fin_output_path, transcribe_path, segments>>
    /\ UNCHANGED notFinal

\* segments = transcribe_audio(...)
FullTranscribeReturns ==
    /\ fin_pc = "transcribing"
    /\ \E segs \in SegmentLists :
         /\ segments' = segs
         /\ fin_calls' = Append(fin_calls,
                                FinalCall("transcribe", "return", transcribe_path, <<>>, segs))
    /\ fin_pc' = "diarize"
    /\ UNCHANGED <<fin_mode, fin_mic_count, fin_output_path, transcribe_path>>
    /\ UNCHANGED notFinal

\* transcribe_audio raises: the outer handler of _worker takes over
FullTranscribeRaises ==
    /\ fin_pc = "transcribing"
    /\ fin_calls' = Append(fin_calls,
                           FinalCall("transcribe", "raise", transcribe_path, <<>>, <<>>))
    /\ fin_pc' = "except"
    /\ UNCHANGED <<fin_mode, fin_mic_count, fin_output_path, transcribe_path, segments>>
    /\ UNCHANGED notFinal

\* the call diarize_segments(transcribe_path, segments, ...) begins
DiarizeBegins ==
    /\ fin_pc = "diarize"
    /\ fin_calls' = Append(fin_calls,
                           FinalCall("diarize", "call", transcribe_path, <<>>, segments))
    /\ fin_pc' = "diarizing"
    /\ UNCHANGED <<fin_mode, fin_mic_count, fin_output_path, transcribe_path, segments>>
    /\ UNCHANGED notFinal

\* segments = diarize_segments(...)
DiarizeReturns ==
    /\ fin_pc = "diarizing"
    /\ segments' = Diarized(segments)
    /\ fin_calls' = Append(fin_calls,
                           FinalCall("diarize", "return", transcribe_path, <<>>, segments'))
    /\ fin_pc' = "note"
    /\ UNCHANGED <<fin_mode, fin_mic_count, fin_output_path, transcribe_path>>
    /\ UNCHANGED notFinal

\* except Exception around the diarization: the segments stay as they were
DiarizeRaises ==
    /\ fin_pc = "diarizing"
    /\ fin_calls' = Append(fin_calls,
                           FinalCall("diarize", "raise", transcribe_path, <<>>, segments))
    /\ fin_pc' = "note"
    /\ UNCHANGED <<fin_mode, fin_mic_count, fin_output_path, transcribe_path, segments>>
    /\ UNCHANGED notFinal

FinalNext ==
    \/ AssignTranscribePath
    \/ ExtractMicOnlyBegins
    \/ ExtractFrontBegins
    \/ NoExtraction
    \/ ExtractReturns
    \/ ExtractRaises
    \/ FullTranscribeBegins
    \/ FullTranscribeReturns
    \/ FullTranscribeRaises
    \/ DiarizeBegins
    \/ DiarizeReturns
    \/ DiarizeRaises

(***************************************************************************)
(* Speaker labelling (diarizer.diarize_segments).  Times are whole numbers *)
(* of a time unit; the sample rate is a number of frames per unit.         *)
(***************************************************************************)
MaxSegTime == 2

MaxSegments == 2

MaxTurns == 2

Max(a, b) == IF a >= b THEN a ELSE b

\* max(0.0, min(a_end, b_end) - max(a_start, b_start))
Overlap(a_start, a_end, b_start, b_end) ==
    Max(0, Min(a_end, b_end) - Max(a_start, b_start))

\* Segment(start=..., end=..., text=..., speaker=...)
Segment(start, end, text, speaker) ==
    [start |-> start, end |-> end, text |-> text, speaker |-> speaker]

\* the loop over speaker_turns with ov >= best_overlap
RECURSIVE ScanTurnsLastWins(_, _, _, _)
ScanTurnsLastWins(seg, turns, best_speaker, best_overlap) ==
    IF turns = <<>> THEN best_speaker
    ELSE LET ov == Overlap(seg.start, seg.end, turns[1].start, turns[1].end)
         IN IF ov >= best_overlap
            THEN ScanTurnsLastWins(seg, Tail(turns), turns[1].speaker, ov)
            ELSE ScanTurnsLastWins(seg, Tail(turns), best_speaker, best_overlap)

\* for start, end, speaker in speaker_turns: ov = _overlap(...);
\* if ov > best_overlap: best_overlap = ov; best_speaker = speaker
RECURSIVE ScanTurns(_, _, _, _)
ScanTurns(seg, turns, best_speaker, best_overlap) ==
    IF turns = <<>> THEN best_speaker
    ELSE LET ov == Overlap(seg.start, seg.end, turns[1].start, turns[1].end)
         IN IF ov > best_overlap
            THEN ScanTurns(seg, Tail(turns), turns[1].speaker, ov)
            ELSE ScanTurns(seg, Tail(turns), best_speaker, best_overlap)

\* speaker_map.get(speaker, speaker)
MapGet(map, speaker) == IF speaker \in DOMAIN map THEN map[speaker] ELSE speaker

\* best_speaker on the external path, after the speaker map
ExternalSpeaker(seg) ==
    LET best_speaker == ScanTurns(seg, dz_turns, None, 0)
    IN IF best_speaker # None /\ DOMAIN dz_speaker_map # {}
       THEN MapGet(dz_speaker_map, best_speaker) ELSE best_speaker

\* ["left", "right", "rear_left", "rear_right"][:channel_count]
\* if channel_count > 1 else ["speaker_0"]
Labels(channel_count) ==
    IF channel_count > 1
    THEN SubSeq(<<"left", "right", "rear_left", "rear_right">>, 1, Min(4, channel_count))
    ELSE <<"speaker_0">>

\* waveform[start:end]
Window(frames, start, end) == SubSeq(frames, start + 1, Min(end, Len(frames)))

\* the sum of window**2 over the frames, for channel c (counted from 1); the
\* mean divides every channel's sum by the same number of frames
RECURSIVE Energy(_, _)
Energy(window, c) ==
    IF window = <<>> THEN 0
    ELSE window[1][c] * window[1][c] + Energy(Tail(window), c)

\* int(np.argmax(energy)): the first index of the largest value, from 0
ArgMax(window, channel_count) ==
    CHOOSE c \in 0..(channel_count - 1) :
        /\ \A d \in 0..(channel_count - 1) : Energy(window, c + 1) >= Energy(window, d + 1)
        /\ \A d \in 0..(c - 1) : Energy(window, d + 1) < Energy(window, c + 1)

\* the speaker of one segment on the channel-energy path
FallbackSpeaker(seg) ==
    LET sample_rate   == dz_waveform.rate
        channel_count == dz_waveform.channels
        labels        == Labels(channel_count)
        start         == Max(0, seg.start * sample_rate)
        end           == Max(start + 1, seg.end * sample_rate)
        window        == Window(dz_waveform.frames, start, end)
        best_idx      == IF window = <<>> THEN 0 ELSE ArgMax(window, channel_count)
        speaker       == IF best_idx < Len(labels) THEN labels[best_idx + 1]
                         ELSE <<"speaker_", best_idx>>
    IN IF DOMAIN dz_speaker_map # {} THEN MapGet(dz_speaker_map, speaker) ELSE speaker

\* a labelling that stores the speaker in the argument's own segments
RelabelInPlace(heap, items, speakers) ==
    [heap  |-> [o \in 1..Len(heap) |->
                   IF \E i \in 1..Len(items) : items[i] = o
                   THEN [heap[o] EXCEPT !.speaker =
                            speakers[CHOOSE i \in 1..Len(items) : items[i] = o]]
                   ELSE heap[o]],
     items |-> items]

\* output = []; for seg in segments: output.append(Segment(start=seg.start,
\* end=seg.end, text=seg.text, speaker=...)): new objects in a new list
AppendSegments(heap, items, speakers) ==
    [heap  |-> heap \o [i \in 1..Len(items) |->
                           Segment(heap[items[i]].start, heap[items[i]].end,
                                   heap[items[i]].text, speakers[i])],
     items |-> [i \in 1..Len(items) |-> Len(heap) + i]]

NoWaveform == [rate |-> 1, channels |-> 1, frames |-> <<>>]

DiarIdle ==
    /\ dz_heap = <<>>
    /\ dz_segments = <<>>
    /\ dz_given = <<>>
    /\ dz_turns = <<>>
    /\ dz_hf_token = FALSE
    /\ dz_speaker_map = <<>>
    /\ dz_imports = TRUE
    /\ dz_waveform = NoWaveform
    /\ dz_pc = "idle"
    /\ dz_result = [list |-> None, items |-> <<>>]

\* the spans [start, end) with start < end up to MaxSegTime
Spans == {sp \in (0..MaxSegTime) \X (0..MaxSegTime) : sp[1] < sp[2]}

\* the segments transcribe_audio returns carry no speaker
GivenSegments ==
    UNION {[1..n -> Spans] : n \in 0..MaxSegments}

\* pyannote yields the turns in order of their start, then of their end
TurnLists ==
    {t \in UNION {[1..n -> [start : 0..MaxSegTime, end : 0..MaxSegTime,
                            speaker : {"A", "B"}]] : n \in 0..MaxTurns} :
        /\ \A i \in 1..Len(t) : t[i].start < t[i].end
        /\ \A i \in 1..(Len(t) - 1) :
              \/ t[i].start < t[i + 1].start
              \/ t[i].start = t[i + 1].start /\ t[i].end <= t[i + 1].end}

SpeakerMaps == {<<>>, [s \in {"A", "left"} |-> "Alice"]}

Waveforms ==
    {[rate |-> 1, channels |-> c, frames |-> f] :
        c \in 1..MaxChannels,
        f \in UNION {[1..n -> [1..MaxChannels -> {0, 1}]] : n \in 0..MaxSegTime}}

\* diarize_segments(audio_path, segments, speaker_map, hf_token) is called
DiarInit ==
    /\ \E spans \in GivenSegments :
         /\ dz_heap = [i \in 1..Len(spans) |->
                          Segment(spans[i][1], spans[i][2], <<"t", i>>, None)]
         /\ dz_segments = [i \in 1..Len(spans) |-> i]
    /\ dz_given = dz_heap
    /\ dz_speaker_map \in SpeakerMaps
    /\ dz_hf_token \in BOOLEAN
    /\ dz_imports \in BOOLEAN
    /\ IF dz_hf_token /\ dz_imports
       THEN dz_turns \in TurnLists
       ELSE dz_turns = <<>>
    /\ IF ~dz_hf_token /\ dz_imports
       THEN /\ dz_waveform \in Waveforms
            /\ \A i \in 1..Len(dz_waveform.frames) :
                 \A c \in (dz_waveform.channels + 1)..MaxChannels :
                    dz_waveform.frames[i][c] = 0
       ELSE dz_waveform = NoWaveform
    /\ dz_pc = "called"
    /\ dz_result = [list |-> None, items |-> <<>>]

\* if not hf_token: _fallback_channel_labels() whose imports fail:
\* logger.warning(...); return segments
FallbackUnavailable ==
    /\ dz_pc = "called"
    /\ ~dz_hf_token
    /\ ~dz_imports
    /\ dz_result' = [list |-> "segments", items |-> dz_segments]
    /\ dz_pc' = "returned"
    /\ UNCHANGED <<dz_heap, dz_segments, dz_given, dz_turns, dz_hf_token,
                   dz_speaker_map, dz_imports, dz_waveform>>
    /\ UNCHANGED notDiar

\* if not hf_token: _fallback_channel_labels(): the label of the channel with
\* the most energy over the segment's window
FallbackChannelLabels ==
    /\ dz_pc = "called"
    /\ ~dz_hf_token
    /\ dz_imports
    /\ LET out == AppendSegments(dz_heap, dz_segments,
                     [i \in 1..Len(dz_segments) |->
                         FallbackSpeaker(dz_heap[dz_segments[i]])])
       IN /\ dz_heap' = out.heap
          /\ dz_result' = [list |-> "output", items |-> out.items]
    /\ dz_pc' = "returned"
    /\ UNCHANGED <<dz_segments, dz_given, dz_turns, dz_hf_token, dz_speaker_map,
                   dz_imports, dz_waveform>>
    /\ UNCHANGED notDiar

\* from pyannote.audio import Pipeline fails:
\* raise RuntimeError("pyannote.audio is required for diarization.")
PyannoteMissing ==
    /\ dz_pc = "called"
    /\ dz_hf_token
    /\ ~dz_imports
    /\ dz_pc' = "raised"
    /\ UNCHANGED <<dz_heap, dz_segments, dz_given, dz_turns, dz_hf_token,
                   dz_speaker_map, dz_imports, dz_waveform, dz_result>>
    /\ UNCHANGED notDiar

\* the external diarization: every segment gets the speaker of its best turn
ExternalDiarization ==
    /\ dz_pc = "called"
    /\ dz_hf_token
    /\ dz_imports
    /\ LET out == AppendSegments(dz_heap, dz_segments,
                     [i \in 1..Len(dz_segments) |->
                         ExternalSpeaker(dz_heap[dz_segments[i]])])
       IN /\ dz_heap' = out.heap
          /\ dz_result' = [list |-> "output", items |-> out.items]
    /\ dz_pc' = "returned"
    /\ UNCHANGED <<dz_segments, dz_given, dz_turns, dz_hf_token, dz_speaker_map,
                   dz_imports, dz_waveform>>
    /\ UNCHANGED notDiar

DiarNext ==
    \/ FallbackUnavailable
    \/ FallbackChannelLabels
    \/ PyannoteMissing
    \/ ExternalDiarization

(***************************************************************************)
(* The transcript timeline (renderer._build_timeline_lines).  Times are    *)
(* hundredths of a second.                                                 *)
(***************************************************************************)
MaxTimelineSegments == 2

MaxTimelineNotes == 2

\* f"{value:0>8.2f}": two decimals, filled with "0" on the left to width 8
RECURSIVE PadLeft(_, _)
PadLeft(text, width) ==
    IF Len(text) >= width THEN text ELSE PadLeft(<<"0">> \o text, width)

FormatTime(hundredths) ==
    PadLeft(IntText(hundredths \div 100) \o <<".">>
              \o <<Digits[((hundredths % 100) \div 10) + 1], Digits[(hundredths % 10) + 1]>>,
            8)

\* the position of the first ":" of a text, 0 when it has none
FirstColon(text) ==
    IF \E i \in 1..Len(text) : text[i] = ":"
    THEN CHOOSE i \in 1..Len(text) :
            text[i] = ":" /\ \A j \in 1..(i - 1) : text[j] # ":"
    ELSE 0

\* float(text) succeeds: for the stamps considered, a non-empty run of digits
FloatParses(text) == text # <<>> /\ \A i \in 1..Len(text) : IsDigit(text[i])

\* mins, secs = stamp.split(":", 1); seconds = float(mins) * 60 + float(secs);
\* except ValueError: seconds = 0.0
StampSeconds(stamp) ==
    LET colon == FirstColon(stamp)
        mins  == SubSeq(stamp, 1, colon - 1)
        secs  == SubSeq(stamp, colon + 1, Len(stamp))
    IN IF colon # 0 /\ FloatParses(mins) /\ FloatParses(secs)
       THEN (ParseDigits(mins, 10) * 60 + ParseDigits(secs, 10)) * 100
       ELSE 0

\* note.get("timestamp", "00:00")
NoteStamp(item) ==
    IF item.has_timestamp THEN item.timestamp ELSE <<"0", "0", ":", "0", "0">>

\* the timeline entry of a segment
SegmentEntry(seg) ==
    LET text    == CleanText(seg.text)
        speaker == IF seg.speaker # <<>> THEN CleanText(seg.speaker) ELSE <<>>
    IN [time |-> seg.start,
        line |-> <<"[">> \o FormatTime(seg.start) \o <<"]">>
                 \o (IF speaker # <<>> THEN <<" ">> \o speaker \o <<":">> ELSE <<>>)
                 \o <<" ">> \o text]

\* the timeline entry of a timestamped note
NoteEntry(item) ==
    LET seconds   == StampSeconds(NoteStamp(item))
        label     == IF item.contact # <<>>
                     THEN <<"N", "O", "T", "E", " ", "(">> \o CleanText(item.contact)
                          \o <<")">>
                     ELSE <<"N", "O", "T", "E">>
        note_text == CleanText(item.text)
    IN [time |-> seconds,
        line |-> <<"[">> \o FormatTime(seconds) \o <<"]", " ">> \o label
                 \o <<":", " ">> \o note_text]

\* timeline: the segments' entries, then the notes' entries
Timeline(segs, notes) ==
    [i \in 1..Len(segs) |-> SegmentEntry(segs[i])]
    \o [i \in 1..Len(notes) |-> NoteEntry(notes[i])]

\* an insertion that puts an entry before the entries of equal time
InsertBeforeEqual(item, sorted) ==
    LET k == Cardinality({i \in 1..Len(sorted) : sorted[i].time < item.time})
    IN SubSeq(sorted, 1, k) \o <<item>> \o SubSeq(sorted, k + 1, Len(sorted))

\* the place of an entry in a sorted list: after every entry that is not
\* later than it (sorted() is stable)
InsertStable(item, sorted) ==
    LET k == Cardinality({i \in 1..Len(sorted) : sorted[i].time <= item.time})
    IN SubSeq(sorted, 1, k) \o <<item>> \o SubSeq(sorted, k + 1, Len(sorted))

\* sorted(timeline, key=lambda x: x["time"])
RECURSIVE SortedByTime(_)
SortedByTime(timeline) ==
    IF timeline = <<>> THEN <<>>
    ELSE InsertStable(timeline[Len(timeline)],
                      SortedByTime(SubSeq(timeline, 1, Len(timeline) - 1)))

\* _build_timeline_lines(segments, timestamped_notes)
BuildTimelineLines(segs, notes) ==
    LET sorted == SortedByTime(Timeline(segs, notes))
    IN [i \in 1..Len(sorted) |-> sorted[i].line]

TimelineIdle ==
    /\ tl_segments = <<>>
    /\ tl_notes = <<>>
    /\ tl_lines = <<>>
    /\ tl_pc = "idle"

SegmentStarts == {0, 50, 100, 6000}

\* stamps as _format_timestamp writes them, and stamps that do not parse
Stamps == {<<"0", "0", ":", "0", "1">>, <<"0", "1", ":", "0", "0">>,
           <<"x">>, <<"1", ":", "x">>}

\* the i-th segment says "s<i>", the i-th note "n<i>"; an empty list stands
\* for timestamped_notes left at None as well
TimelineInit ==
    /\ \E n \in 0..MaxTimelineSegments :
         \E starts \in [1..n -> SegmentStarts], speakers \in [1..n -> {<<>>, <<"A">>}] :
            tl_segments = [i \in 1..n |->
                              [start |-> starts[i], text |-> <<"s">> \o IntText(i),
                               speaker |-> speakers[i]]]
    /\ \E n \in 0..MaxTimelineNotes :
         \E stamps \in [1..n -> Stamps \cup {<<>>}] :
            tl_notes = [i \in 1..n |->
                           [has_timestamp |-> stamps[i] # <<>>, timestamp |-> stamps[i],
                            text |-> <<"n">> \o IntText(i), contact |-> <<"B", "o">>]]
    /\ tl_lines = <<>>
    /\ tl_pc = "called"

CallBuildTimelineLines ==
    /\ tl_pc = "called"
    /\ tl_lines' = BuildTimelineLines(tl_segments, tl_notes)
    /\ tl_pc' = "returned"
    /\ UNCHANGED <<tl_segments, tl_notes>>
    /\ UNCHANGED notTimeline

TimelineNext == CallBuildTimelineLines

(***************************************************************************)
(* The end of _worker after capture, transcription and diarization have    *)
(* returned: the note, the segments file, the session record.              *)
(***************************************************************************)
SaveIdle ==
    /\ sv_segments = <<>>
    /\ sv_stamped = <<>>
    /\ sv_note = <<>>
    /\ sv_segments_file = Absent
    /\ sv_session_file = Absent
    /\ sv_written = <<>>
    /\ sv_status = "Ready"
    /\ sv_cleanup = FALSE
    /\ sv_recording = FALSE
    /\ sv_pc = "idle"

\* capture, transcription and diarization have returned without error; the
\* note of the contact and day may exist already
SaveInit ==
    /\ sv_segments \in SegmentLists \cup {Diarized(segs) : segs \in SegmentLists}
    /\ \E n \in 0..MaxTimelineNotes : sv_stamped = [i \in 1..n |-> i]
    /\ sv_note \in {<<>>, <<"header", "section">>}
    /\ sv_segments_file = Absent
    /\ sv_session_file = Absent
    /\ sv_written = <<>>
    /\ sv_status = "Diarization complete"
    /\ sv_cleanup = FALSE
    /\ sv_recording = TRUE
    /\ sv_pc = "note"

\* if not os.path.exists(note_path): write header and section; else append
\* the section
WriteNote ==
    /\ sv_pc = "note"
    /\ sv_note' = IF sv_note = <<>> THEN <<"header", "section">>
                  ELSE Append(sv_note, "section")
    /\ sv_written' = Append(sv_written, "note")
    /\ sv_pc' = "segments"
    /\ UNCHANGED <<sv_segments, sv_stamped, sv_segments_file, sv_session_file, sv_status,
                   sv_cleanup, sv_recording>>
    /\ UNCHANGED notSave

\* save_segments(segments_path, segments): json.dump of asdict of each segment
SaveSegments ==
    /\ sv_pc = "segments"
    /\ sv_segments_file' = sv_segments
    /\ sv_written' = Append(sv_written, "segments")
    /\ sv_pc' = "session"
    /\ UNCHANGED <<sv_segments, sv_stamped, sv_note, sv_session_file, sv_status,
                   sv_cleanup, sv_recording>>
    /\ UNCHANGED notSave

\* the fields of the dataclass Session
SessionFields ==
    {"session_id", "title", "started_at", "duration_seconds", "audio_path", "segments",
     "note_path", "ai_summary", "ai_sentiment", "context_type", "contact_name",
     "contact_id", "organization", "project", "location", "channel", "context_notes"}

\* the keywords of the Session(...) call of _worker
SessionKeywords ==
    {"session_id", "title", "started_at", "duration_seconds", "audio_path", "segments",
     "note_path", "ai_summary", "ai_sentiment", "context_type", "contact_name",
     "contact_id", "organization", "project", "location", "channel", "context_notes",
     "timestamped_notes"}

\* session = Session(...); save_session(session_path, session);
\* _set_status(f"Saved: {note_path}"); _cleanup_recordings(...).  A keyword
\* that is no field of the dataclass makes the constructor raise TypeError,
\* and the statements after it are not reached.
BuildSession ==
    /\ sv_pc = "session"
    /\ IF SessionKeywords \subseteq SessionFields
       THEN /\ sv_session_file' = [segments |-> sv_segments]
            /\ sv_written' = Append(sv_written, "session")
            /\ sv_status' = "Saved"
            /\ sv_cleanup' = TRUE
            /\ sv_pc' = "finally"
       ELSE /\ sv_pc' = "except"
            /\ UNCHANGED <<sv_session_file, sv_written, sv_status, sv_cleanup>>
    /\ UNCHANGED <<sv_segments, sv_stamped, sv_note, sv_segments_file, sv_recording>>
    /\ UNCHANGED notSave

\* except Exception as exc: _set_status(f"Recording failed: {exc}")
SaveExcept ==
    /\ sv_pc = "except"
    /\ sv_status' = "Recording failed"
    /\ sv_pc' = "finally"
    /\ UNCHANGED <<sv_segments, sv_stamped, sv_note, sv_segments_file, sv_session_file,
                   sv_written, sv_cleanup, sv_recording>>
    /\ UNCHANGED notSave

\* finally: if state["recording"]: state["recording"] = False
SaveFinally ==
    /\ sv_pc = "finally"
    /\ sv_recording' = FALSE
    /\ sv_pc' = "done"
    /\ UNCHANGED <<sv_segments, sv_stamped, sv_note, sv_segments_file, sv_session_file,
                   sv_written, sv_status, sv_cleanup>>
    /\ UNCHANGED notSave

SaveNext ==
    \/ WriteNote
    \/ SaveSegments
    \/ BuildSession
    \/ SaveExcept
    \/ SaveFinally

InitOrch == CapIdle /\ QueueIdle /\ OrchIdle /\ ExtractIdle /\ DeviceIdle /\ StartIdle /\ ConfigIdle /\ RenderIdle /\ WorkerIdle /\ FinalIdle /\ DiarIdle /\ TimelineIdle /\ SaveIdle

SpecOrch == InitOrch /\ [][OrchNext]_vars

\* a worker thread keeps being scheduled: its capture call begins, its capture
\* loop polls the stop signal, every finalizing call returns or raises, its
\* handlers run; nothing obliges the hardware to fail or the user to act
FairWorker(w) ==
    /\ WF_vars(CaptureOpen(w))
    /\ WF_vars(CaptureReturn(w))
    /\ WF_vars(AfterCapture(w))
    /\ WF_vars(Extract(w))
    /\ WF_vars(Transcribe(w))
    /\ WF_vars(Diarize(w))
    /\ WF_vars(Save(w))
    /\ WF_vars(ExceptHandler(w))
    /\ WF_vars(FinallyBlock(w))

SpecOrchFair == SpecOrch /\ \A w \in Workers : FairWorker(w)

InitQueue == CapIdle /\ QueueInit /\ OrchIdle /\ ExtractIdle /\ DeviceIdle /\ StartIdle /\ ConfigIdle /\ RenderIdle /\ WorkerIdle /\ FinalIdle /\ DiarIdle /\ TimelineIdle /\ SaveIdle

SpecQueue == InitQueue /\ [][QueueNext]_vars

CapNext ==
    \/ Callback \/ Poll
    \/ OpenMicStream \/ OpenSysStream \/ DualCheck \/ DualIteration
    \/ RecordAudio
    \/ Finish \/ SetStop

InitCapture == CapInit /\ QueueIdle /\ OrchIdle /\ ExtractIdle /\ DeviceIdle /\ StartIdle /\ ConfigIdle /\ RenderIdle /\ WorkerIdle /\ FinalIdle /\ DiarIdle /\ TimelineIdle /\ SaveIdle

SpecCapture == InitCapture /\ [][CapNext]_vars

InitExtract == CapIdle /\ QueueIdle /\ OrchIdle /\ ExtractInit /\ DeviceIdle /\ StartIdle /\ ConfigIdle /\ RenderIdle /\ WorkerIdle /\ FinalIdle /\ DiarIdle /\ TimelineIdle /\ SaveIdle

SpecExtract == InitExtract /\ [][ExtractNext]_vars

InitDevice == CapIdle /\ QueueIdle /\ OrchIdle /\ ExtractIdle /\ DeviceInit /\ StartIdle /\ ConfigIdle /\ RenderIdle /\ WorkerIdle /\ FinalIdle /\ DiarIdle /\ TimelineIdle /\ SaveIdle

SpecDevice == InitDevice /\ [][DeviceNext]_vars

InitLive ==
    CapIdle /\ LiveInit /\ OrchIdle /\ ExtractIdle /\ DeviceIdle /\ StartIdle /\ ConfigIdle /\ RenderIdle /\ WorkerIdle /\ FinalIdle /\ DiarIdle /\ TimelineIdle /\ SaveIdle

SpecLive == InitLive /\ [][LiveNext]_vars

InitConfig ==
    CapIdle /\ QueueIdle /\ OrchIdle /\ ExtractIdle /\ DeviceIdle /\ StartIdle
    /\ ConfigInit /\ RenderIdle /\ WorkerIdle /\ FinalIdle /\ DiarIdle /\ TimelineIdle /\ SaveIdle

SpecConfig == InitConfig /\ [][ConfigNext]_vars

InitRender ==
    CapIdle /\ QueueIdle /\ OrchIdle /\ ExtractIdle /\ DeviceIdle /\ StartIdle
    /\ ConfigIdle /\ RenderInit /\ WorkerIdle /\ FinalIdle /\ DiarIdle /\ TimelineIdle /\ SaveIdle

SpecRender == InitRender /\ [][RenderNext]_vars

InitWorker ==
    CapIdle /\ QueueIdle /\ OrchIdle /\ ExtractIdle /\ DeviceIdle /\ StartIdle
    /\ ConfigIdle /\ RenderIdle /\ WorkerInit /\ FinalIdle /\ DiarIdle /\ TimelineIdle /\ SaveIdle

SpecWorker == InitWorker /\ [][WorkerNext]_vars

InitFinal ==
    CapIdle /\ QueueIdle /\ OrchIdle /\ ExtractIdle /\ DeviceIdle /\ StartIdle
    /\ ConfigIdle /\ RenderIdle /\ WorkerIdle /\ FinalInit /\ DiarIdle /\ TimelineIdle /\ SaveIdle

SpecFinal == InitFinal /\ [][FinalNext]_vars

InitDiar ==
    CapIdle /\ QueueIdle /\ OrchIdle /\ ExtractIdle /\ DeviceIdle /\ StartIdle
    /\ ConfigIdle /\ RenderIdle /\ WorkerIdle /\ FinalIdle /\ DiarInit /\ TimelineIdle /\ SaveIdle
    /\ \A p \in Paths : files[p] = Absent

SpecDiar == InitDiar /\ [][DiarNext]_vars

InitSave ==
    CapIdle /\ QueueIdle /\ OrchIdle /\ ExtractIdle /\ DeviceIdle /\ StartIdle
    /\ ConfigIdle /\ RenderIdle /\ WorkerIdle /\ FinalIdle /\ DiarIdle /\ TimelineIdle
    /\ SaveInit

SpecSave == InitSave /\ [][SaveNext]_vars

InitTimeline ==
    CapIdle /\ QueueIdle /\ OrchIdle /\ ExtractIdle /\ DeviceIdle /\ StartIdle
    /\ ConfigIdle /\ RenderIdle /\ WorkerIdle /\ FinalIdle /\ DiarIdle /\ TimelineInit /\ SaveIdle
    /\ \A p \in Paths : files[p] = Absent

SpecTimeline == InitTimeline /\ [][TimelineNext]_vars

InitStart ==
    CapIdle /\ QueueIdle /\ OrchIdle /\ ExtractIdle /\ DeviceIdle /\ StartInit /\ ConfigIdle /\ RenderIdle /\ WorkerIdle /\ FinalIdle /\ DiarIdle /\ TimelineIdle /\ SaveIdle

SpecStart == InitStart /\ [][StartNext]_vars

(***************************************************************************)
(* Claims about streaming capture, checked under SpecCapture.              *)
(***************************************************************************)

\* C1: when a streaming capture (single or dual) has returned, its
\* duration_seconds is floor(frames in the file / sample_rate_hz), whatever
\* the number of polling sleeps and of blocks written after the stop was set.
C1_DurationFromFramesWritten ==
    cap_pc = "done" =>
        /\ frames_written = NFrames(handle)
        /\ result = NFrames(handle) \div sample_rate_hz

\* a single-stream capture that returned after blocks arrived behind the stop
\* signal, with a frame count that is no multiple of the rate
C1_Witness ==
    /\ cap_pc = "done"
    /\ mode = "single"
    /\ late_blocks > 0
    /\ sleeps > 0
    /\ result = 1
    /\ NFrames(handle) % sample_rate_hz # 0

\* C2: in dual capture the file header carries mic_channels + system_channels
\* channels and every frame group of the file is the mic_channels samples of
\* one mic frame followed by the system_channels samples of one system frame.
C2_DualFrameLayout ==
    mode = "dual" =>
        /\ handle.nchannels = mic_channels + system_channels
        /\ Len(handle.samples) = NFrames(handle) * handle.nchannels
        /\ \A i \in 1..NFrames(handle) :
              /\ \A j \in 0..(mic_channels - 1) :
                    /\ SampleAt(handle, i, j)[1] = "mic"
                    /\ SampleAt(handle, i, j)[2] = j
                    /\ SampleAt(handle, i, j)[3] = SampleAt(handle, i, 0)[3]
              /\ \A j \in 0..(system_channels - 1) :
                    /\ SampleAt(handle, i, mic_channels + j)[1] = "sys"
                    /\ SampleAt(handle, i, mic_channels + j)[2] = j
                    /\ SampleAt(handle, i, mic_channels + j)[3]
                         = SampleAt(handle, i, mic_channels)[3]

\* a dual capture whose streams delivered differing block lengths and that
\* wrote at least two frame groups of more than two channels
C2_Witness ==
    /\ mode = "dual"
    /\ delivered.mic # delivered.sys
    /\ NFrames(handle) >= 2
    /\ mic_channels # system_channels

\* C14 (as claimed): a capture of a requested duration d at rate r, without
\* live transcription and not stopped by the caller, leaves a file of
\* exactly d * r frames and reports duration_seconds = d.
C14_ExactFramesForDuration ==
    (/\ duration_seconds > 0
     /\ ~has_on_chunk
     /\ cap_pc \in {"done", "returned"}
     /\ exit_reason # "stop")
    => /\ NFrames(handle) = duration_seconds * sample_rate_hz
       /\ result = duration_seconds

\* C14 (amended): record_audio with duration d > 0 leaves a file of exactly
\* d * r frames and reports d; a dual capture with duration d > 0 that the
\* caller does not stop leaves a whole number of blocks: at least d * r
\* frames and less than one block more, and reports floor(frames / r),
\* which is at least d.
C14_FramesForDuration ==
    (/\ duration_seconds > 0
     /\ ~has_on_chunk
     /\ cap_pc \in {"done", "returned"}
     /\ exit_reason # "stop")
    => LET target == duration_seconds * sample_rate_hz IN
       /\ mode = "fixed" => /\ NFrames(handle) = target
                            /\ result = duration_seconds
       /\ mode = "dual" => /\ NFrames(handle) >= target
                           /\ NFrames(handle) < target + MaxBlock
                           /\ result = NFrames(handle) \div sample_rate_hz
                           /\ result >= duration_seconds

\* a dual capture of duration 1 at rate 3 that ended on its target with a
\* fourth frame in the file
C14_Witness ==
    /\ mode = "dual"
    /\ cap_pc = "done"
    /\ ~has_on_chunk
    /\ exit_reason = "target"
    /\ duration_seconds = 1
    /\ NFrames(handle) > duration_seconds * sample_rate_hz
    /\ result = duration_seconds

\* C15: in a dual capture with a target duration the loop is running only
\* while the written-frame count is below duration * rate; the iteration
\* that brings the count to the target or beyond leaves the loop, and from
\* then on nothing is written; the loop is left on the target only by such
\* an iteration, and without a target it is left only on the stop signal.
C15_StopsAtTarget ==
    /\ []((mode = "dual" /\ target_frames > 0 /\ cap_pc \in {"check", "read"})
            => frames_written < target_frames)
    /\ [][mode = "dual" =>
            /\ (cap_pc = "read" /\ target_frames > 0
                   /\ frames_written' >= target_frames)
               => (cap_pc' = "closing" /\ exit_reason' = "target")
            /\ (cap_pc = "read" /\ cap_pc' = "closing")
               => /\ target_frames > 0
                  /\ frames_written < target_frames
                  /\ frames_written' >= target_frames
            /\ cap_pc \in {"closing", "done"}
               => (handle' = handle /\ frames_written' = frames_written)
            /\ (cap_pc = "check" /\ cap_pc' = "closing") => stop_event
            /\ (target_frames = 0 /\ cap_pc # "closing" /\ cap_pc' = "closing")
               => (cap_pc = "check" /\ stop_event)]_vars

\* a dual capture that ended on its target in its second iteration or later,
\* beyond the target, with no stop signal
C15_Witness ==
    /\ mode = "dual"
    /\ cap_pc = "done"
    /\ exit_reason = "target"
    /\ ~stop_event
    /\ has_on_chunk
    /\ Len(chunks) >= 2
    /\ frames_written > target_frames

\* C16: a dual capture whose mic or system stream fails to open raises: it
\* returns no RecordingResult, has written no frame and handed none on,
\* leaves no stream open and stays ended; the loop runs only with both
\* streams open.
C16_DualOpenFailureIsFatal ==
    /\ []((mode = "dual" /\ cap_pc = "raised")
            => /\ cap_error # None
               /\ result = None
               /\ NFrames(handle) = 0
               /\ frames_written = 0
               /\ chunks = <<>>
               /\ streams_open = {})
    /\ []((mode = "dual" /\ cap_pc \in {"check", "read"})
            => streams_open = {"mic", "sys"})
    /\ [][(mode = "dual" /\ cap_pc = "raised")
            => (cap_pc' = "raised" /\ handle' = handle /\ result' = result)]_vars

\* the system stream failed to open after the mic stream had been opened
C16_Witness ==
    /\ mode = "dual"
    /\ cap_pc = "raised"
    /\ cap_error = "PortAudioError: system"
    /\ streams_open = {}
    /\ handle.nchannels = mic_channels + system_channels
    /\ NFrames(handle) = 0

\* C27: the dual loop polls the stop signal only at the head of an iteration:
\* once the signal is set at most one further combined block is written, a
\* loop head that sees it set leaves for the closing code without writing,
\* the closing code writes nothing and leaves no stream open; the signal
\* stays set, and setting it again changes nothing at all.
C27_StopPolledAtBlockBoundary ==
    /\ [](mode = "dual" => late_blocks <= 1)
    /\ []((mode = "dual" /\ cap_pc = "done") => streams_open = {})
    /\ [][mode = "dual" =>
            /\ stop_event => stop_event'
            /\ (stop_event /\ cap_pc = "check")
               => (cap_pc' = "closing" /\ exit_reason' = "stop"
                     /\ handle' = handle /\ chunks' = chunks)
            /\ (stop_event /\ late_blocks = 1)
               => (handle' = handle /\ chunks' = chunks)
            /\ cap_pc \in {"closing", "done"}
               => /\ handle' = handle /\ chunks' = chunks
                  /\ cap_pc' # cap_pc => (cap_pc' = "done" /\ streams_open' = {})
            /\ (stop_event /\ SetStop) => UNCHANGED vars]_vars

\* the stop signal arrived during an iteration: that block was still written,
\* then the loop left and closed both streams
C27_Witness ==
    /\ mode = "dual"
    /\ cap_pc = "done"
    /\ exit_reason = "stop"
    /\ late_blocks = 1
    /\ NFrames(handle) >= 2
    /\ streams_open = {}

\* C36: a dual capture with a positive target and no stop signal ends after
\* finitely many iterations that each write a frame: while the loop runs
\* frames_written is below the target, every iteration adds to frames_written
\* exactly the frames it wrote to the file and nothing else changes it, and
\* the loop leaves exactly at the iteration that brings frames_written to the
\* target or beyond, so that on exit
\* target <= frames_written < target + frames of the last iteration.
C36_DualTargetTerminates ==
    /\ []((mode = "dual" /\ target_frames > 0 /\ cap_pc \in {"check", "read"})
            => frames_written < target_frames)
    /\ []((mode = "dual" /\ target_frames > 0 /\ exit_reason = "target")
            => /\ cap_pc \in {"closing", "done"}
               /\ frames_written >= target_frames)
    /\ [][(mode = "dual" /\ target_frames > 0) =>
            /\ frames_written' >= frames_written
            /\ frames_written' - frames_written = NFrames(handle') - NFrames(handle)
            /\ frames_written' # frames_written => cap_pc = "read"
            /\ (cap_pc = "read" /\ cap_pc' # cap_pc)
               => /\ cap_pc' = "closing" <=> frames_written' >= target_frames
                  /\ cap_pc' = "closing"
                     => /\ exit_reason' = "target"
                        /\ target_frames <= frames_written'
                        /\ frames_written' <
                              target_frames + (frames_written' - frames_written)]_vars

\* a capture that ran to its target without a stop signal and overshot it by
\* one frame, every frame counted being in the file
C36_Witness ==
    /\ mode = "dual"
    /\ cap_pc = "done"
    /\ exit_reason = "target"
    /\ ~stop_event
    /\ target_frames >= 2
    /\ frames_written = target_frames + 1
    /\ NFrames(handle) = frames_written

(***************************************************************************)
(* Claims about the hand-off queue, checked under SpecQueue.               *)
(***************************************************************************)

\* C3: every _enqueue_audio call returns (it neither waits nor raises), the
\* queue never holds more than 50 blocks, every pushed block is either
\* enqueued or dropped, never both, a block is dropped exactly when the
\* queue was full at its push, and a dropped block never enters the queue.
C3_BoundedLossyHandOff ==
    /\ enqueue_outcome \in {None, "returned"}
    /\ Len(audio_queue.items) <= QueueMaxSize
    /\ pushed = Cardinality(enqueued_ids) + Cardinality(dropped_ids)
    /\ enqueued_ids \cap dropped_ids = {}
    /\ enqueued_ids \cup dropped_ids = 1..pushed
    /\ audio_queue.ref => dropped_ids = full_at_push
    /\ \A i \in 1..Len(audio_queue.items) :
          /\ audio_queue.items[i] \in enqueued_ids
          /\ \A k \in 1..Len(audio_queue.items) :
                audio_queue.items[i] = audio_queue.items[k] => i = k

\* the worker never took a block, more blocks than the queue holds were
\* pushed, the queue is full and the surplus was dropped
C3_Witness ==
    /\ consumer_paused
    /\ consumed = 0
    /\ pushed > QueueMaxSize
    /\ Len(audio_queue.items) = QueueMaxSize
    /\ Cardinality(dropped_ids) = pushed - QueueMaxSize
    /\ enqueue_outcome = "returned"

(***************************************************************************)
(* Claims about note rendering, checked under SpecRender.                  *)
(***************************************************************************)
Contains(text, part) ==
    \E i \in 0..(Len(text) - Len(part)) : SubSeq(text, i + 1, i + Len(part)) = part

\* C21 (as claimed): the rendered note contains "title: " followed by the
\* title exactly as passed and "audio: " followed by the audio file name
\* exactly as passed, a "participants:" entry when participants are given, a
\* "tags:" entry when tags are given, "channels: <n>" when channels is given,
\* and the "## Transcript" heading.
C21_NoteHasFrontMatter ==
    render_pc = "rendered"
    => /\ Contains(note, <<"t", "i", "t", "l", "e", ":", " ">> \o note_args.title)
       /\ Contains(note, <<"a", "u", "d", "i", "o", ":", " ">> \o note_args.audio_filename)
       /\ note_args.participants # <<>> => Contains(note, <<"p", "a", "r", "t", "i", "c", "i", "p", "a", "n", "t", "s", ":">>)
       /\ note_args.tags # <<>> => Contains(note, <<"t", "a", "g", "s", ":">>)
       /\ note_args.channels # 0
              => Contains(note, <<"c", "h", "a", "n", "n", "e", "l", "s", ":", " ">> \o IntText(note_args.channels))
       /\ Contains(note, <<"#", "#", " ", "T", "r", "a", "n", "s", "c", "r", "i", "p", "t">>)

\* the samples of all blocks handed to on_chunk, in the order handed
RECURSIVE ChunkSamplesInOrder(_)
ChunkSamplesInOrder(blocks) ==
    IF blocks = <<>> THEN <<>>
    ELSE ToBytes(Head(blocks)) \o ChunkSamplesInOrder(Tail(blocks))

\* C26 (as claimed): in single-stream capture the file holds every frame the
\* hardware has delivered, in the order of delivery, none skipped, and when
\* on_chunk is set the blocks handed to it are those same blocks in the same
\* order.
C26_EveryBlockAppendedInOrder ==
    mode = "single"
    => /\ NFrames(handle) = delivered.mic
       /\ \A i \in 1..NFrames(handle) : \A j \in 0..(channels - 1) :
             SampleAt(handle, i, j) = <<"mic", j, i>>
       /\ has_on_chunk => ChunkSamplesInOrder(chunks) = handle.samples

\* the frames of all blocks handed to on_chunk
RECURSIVE ChunkFrames(_)
ChunkFrames(blocks) ==
    IF blocks = <<>> THEN 0 ELSE Len(Head(blocks)) + ChunkFrames(Tail(blocks))

\* C37: in single-stream capture the file and on_chunk get the same audio:
\* the blocks handed to on_chunk, in order, hold exactly the samples written
\* to the file, frames_written is the number of frames of those blocks, the
\* file holds the frames delivered less those of flagged blocks, and a step
\* that delivers a flagged block changes neither the file, nor
\* frames_written, nor what was handed to on_chunk.
C37_WriterAndConsumerSeeSameAudio ==
    /\ [](mode = "single"
            => /\ frames_written = NFrames(handle)
               /\ NFrames(handle) = delivered.mic - delivered.flagged
               /\ has_on_chunk
                  => /\ ChunkSamplesInOrder(chunks) = handle.samples
                     /\ ChunkFrames(chunks) = frames_written)
    /\ [][(mode = "single" /\ delivered'.flagged # delivered.flagged)
            => /\ handle' = handle
               /\ frames_written' = frames_written
               /\ chunks' = chunks]_vars

\* a capture with on_chunk that has returned after two blocks were written
\* and handed on and a flagged block was dropped
C37_Witness ==
    /\ mode = "single"
    /\ has_on_chunk
    /\ cap_pc = "done"
    /\ delivered.flagged > 0
    /\ Len(chunks) = 2
    /\ frames_written = delivered.mic - delivered.flagged

\* C25: in a pass of the dual loop that read m mic frames and s system
\* frames, exactly min(m, s) frames are appended to the file, the i-th of
\* them made of the i-th frame of the mic block followed by the i-th frame of
\* the system block, and frames_written grows by min(m, s); nothing else is
\* written, so the frames beyond min(m, s) of the longer block are in no
\* frame group of the file, then or later, and no sample is written twice.
C25_TruncatedToShorterBlock ==
    /\ [][(mode = "dual" /\ delivered' # delivered)
            => LET m == delivered'.mic - delivered.mic
                   s == delivered'.sys - delivered.sys
                   before == NFrames(handle)
               IN /\ frames_written' = frames_written + Min(m, s)
                  /\ NFrames(handle') = before + Min(m, s)
                  /\ SubSeq(handle'.samples, 1, Len(handle.samples)) = handle.samples
                  /\ \A i \in 1..Min(m, s) :
                        /\ \A j \in 0..(mic_channels - 1) :
                              SampleAt(handle', before + i, j)
                                 = <<"mic", j, delivered.mic + i>>
                        /\ \A j \in 0..(system_channels - 1) :
                              SampleAt(handle', before + i, mic_channels + j)
                                 = <<"sys", j, delivered.sys + i>>]_vars
    /\ [](mode = "dual"
            => \A p, q \in 1..Len(handle.samples) :
                  p # q => handle.samples[p] # handle.samples[q])

\* a mic frame was dropped as the tail of a longer block and a later pass
\* has written a frame after it
C25_Witness ==
    /\ mode = "dual"
    /\ NFrames(handle) >= 2
    /\ SampleAt(handle, NFrames(handle), 0)[3] > NFrames(handle)
    /\ SampleAt(handle, NFrames(handle), mic_channels)[3] = NFrames(handle)

Windows == SelectSeq(engine_log, LAMBDA c : c.kind = "window")

\* what a slice takes off the front of the buffer
Stride == ChunkSamples(live_rate) - OverlapSamples(live_rate)

\* C28: every window the main loop passes to the engine has exactly
\* chunk_samples frames; the k-th window is the chunk_samples frames of the
\* accepted audio that start (k-1) * (chunk_samples - overlap_samples) frames
\* in, so consecutive windows share exactly overlap_samples frames and no
\* frame is skipped; the buffer is the accepted audio from the last
\* overlap_samples frames of the last window on; each slice shortens the
\* buffer by chunk_samples - overlap_samples > 0 frames, so the slicing loop
\* terminates.
C28_WindowsAndOverlap ==
    /\ [](/\ Stride > 0
          /\ \A k \in 1..Len(Windows) :
                /\ Len(Windows[k].frames) = ChunkSamples(live_rate)
                /\ Windows[k].frames =
                      SubSeq(taken, (k - 1) * Stride + 1,
                             (k - 1) * Stride + ChunkSamples(live_rate))
          /\ buffer = SubSeq(taken, Len(Windows) * Stride + 1, Len(taken)))
    /\ [][(w_pc = "slice" /\ w_pc' = "engine")
             => /\ Len(buffer) >= ChunkSamples(live_rate)
                /\ Len(buffer') = Len(buffer) - Stride]_vars

\* two windows have been sliced at a rate whose overlap is not zero
C28_Witness ==
    /\ Len(Windows) >= 2
    /\ OverlapSamples(live_rate) > 0
    /\ Windows[2].frames[1] = Windows[1].frames[ChunkSamples(live_rate)]

(***************************************************************************)
(* Claims about the configuration file, checked under SpecConfig.          *)
(***************************************************************************)
\* C20: save_config followed by load_config on the same path is a round
\* trip: the Config loaded equals the Config saved in every field (base_dir,
\* device_name, whisper_model, language, diarization, save_audio, audio,
\* notes, personal_ai, and every key of context).
C20_SaveLoadRoundTrip ==
    cfg_pc = "loaded"
    => /\ loaded = config
       /\ \A f \in DOMAIN config : loaded[f] = config[f]

\* a Config whose language is the text "no", whose api key is a text of
\* digits, and whose context holds a key, has been saved and loaded
C20_Witness ==
    /\ cfg_pc = "loaded"
    /\ config.language = PyStr(<<"n", "o">>)
    /\ config.personal_ai.api_key.t = "str"
    /\ config.context # {}
    /\ yaml_file.language.style = "quoted"
    /\ loaded = config

Idle == recording = FALSE /\ start_time = None

\* C4: an exception raised by a finalizing step (extraction, transcription,
\* diarization, note or session writing) is caught and reported: a diarization
\* failure by the inner handler ("Diarization failed"), any other by the
\* workflow's handler ("Recording failed"); the finally block then leaves the
\* recording flag false, the start time cleared and the live transcriber
\* stopped, and once no workflow is running the orchestrator is Idle, where a
\* start request begins a recording.
C4_FinalizingFailureReturnsToIdle ==
    /\ [](\A w \in Workers :
            /\ (pc[w] = "finally" /\ failed[w] \in FinalizingSteps \ {"diarize"})
                   => last_status[w] = "Recording failed"
            /\ (pc[w] = "save" /\ failed[w] = "diarize")
                   => last_status[w] = "Diarization failed")
    /\ []((\A w \in Workers : pc[w] = "unborn") => Idle)
    /\ [][\A w \in Workers :
            /\ (pc[w] \in FinalizingSteps /\ failed'[w] # failed[w])
                   => \/ pc'[w] = "except"
                      \/ failed'[w] = "diarize" /\ pc'[w] = "save"
            /\ (pc[w] = "except" /\ pc'[w] # pc[w]) => pc'[w] = "finally"
            /\ (pc[w] = "finally" /\ pc'[w] # pc[w])
                   => /\ pc'[w] = "unborn"
                      /\ Idle'
                      /\ live_stop_event'
                      /\ ~audio_queue'.ref]_vars

\* a workflow whose transcription raised has reported the failure and is
\* about to run its finally block, while a later recording holds the flag
C4_Witness ==
    \E w \in Workers :
        /\ pc[w] = "finally"
        /\ failed[w] = "transcribe"
        /\ last_status[w] = "Recording failed"
        /\ recording

C19_CaptureFailureAborts ==
    /\ [](\A w \in Workers :
            /\ failed[w] = "capture" => pc[w] \in {"except", "finally"}
            /\ (pc[w] = "finally" /\ failed[w] = "capture")
                   => last_status[w] = "Recording failed")
    /\ [][\A w \in Workers :
            /\ (pc[w] \in {"open", "capturing"} /\ pc'[w] # pc[w])
                   => \/ pc'[w] \in {"capturing", "captured"} /\ failed'[w] = None
                      \/ pc'[w] = "except" /\ failed'[w] = "capture"
            /\ (failed[w] = "capture" /\ pc[w] = "except" /\ pc'[w] # pc[w])
                   => pc'[w] = "finally"
            /\ (failed[w] = "capture" /\ pc[w] = "finally" /\ pc'[w] # pc[w])
                   => pc'[w] = "unborn" /\ Idle']_vars

\* a capture that had opened its file and then failed has been reported and
\* is about to run its finally block; the file it opened is still there
C19_Witness ==
    \E w \in Workers :
        /\ pc[w] = "finally"
        /\ failed[w] = "capture"
        /\ last_status[w] = "Recording failed"
        /\ files[output_path[w]] = w

\* C24 (as claimed): with live transcription enabled, from the start of a
\* recording and for as long as the orchestrator is Recording, the bounded
\* audio queue exists and the live worker is running.  (_start_recording and
\* its worker never read the live-transcription setting, so the model has no
\* variable for it: what they do is the same whether it is on or off.)
C24_LiveWorkerRunsWhileRecording ==
    recording => audio_queue.ref /\ live_pc \in {"import", "load", "loop"}

\* C30 (as claimed): while a capture has its output file open for writing, no
\* other workflow is capturing to, extracting from, transcribing or diarizing
\* that same path.
C30_NoOtherOpensCapturedPath ==
    \A w \in Workers : \A v \in Workers \ {w} :
        (pc[w] = "capturing"
           /\ pc[v] \in {"capturing", "extract", "transcribe", "diarize"})
        => output_path[v] # output_path[w]

\* C33 (as claimed): while a recording's capture call is running the recording
\* flag is true, whatever the other workflows are doing.
C33_FlagTrueWhileCapturing ==
    \A w \in Workers : pc[w] = "capturing" => recording

\* C34 (as claimed): at most one capture call is running at any time.
C34_AtMostOneCapture ==
    Cardinality({w \in Workers : pc[w] = "capturing"}) <= 1

\* C35 (as claimed): once a Stop request has been accepted while a capture is
\* running (the flag is true and the stop signal set), that capture returns
\* and its workflow runs to the end of its worker thread.
C35_AcceptedStopLeadsToIdle ==
    \A w \in Workers :
        (pc[w] = "capturing" /\ recording /\ stop_event) ~> (pc[w] = "unborn")

\* C39 (as claimed): a capture never opens for writing a path that already
\* holds the audio file of an earlier recording.
C39_NeverOverwritesEarlierRecording ==
    [][\A w \in Workers :
          (pc[w] = "open" /\ pc'[w] = "capturing")
          => files[output_path[w]] = Absent]_vars

\* C6 (as claimed): a start request made while a recording is being captured
\* or finalized does not begin a second recording, so at most one workflow
\* is between its start and its return to Idle.
C6_OneRecordingAtATime ==
    Cardinality({w \in Workers : pc[w] # "unborn"}) <= 1

(***************************************************************************)
(* Claims about channel extraction, checked under SpecExtract.             *)
(***************************************************************************)
Original == fs["in"]

OutOfRange(idx) == idx < 0 \/ idx >= Original.nchannels

AllOutOfRange == \A k \in 1..Len(channels_to_keep) : OutOfRange(channels_to_keep[k])

NothingWritten == fs["out"] = out_before

\* C7 (as claimed): a call whose index list has no in-range entry fails with
\* the no-valid-channels error and leaves the output path as it was.
C7_AllOutOfRangeIsNoValidChannels ==
    ("direct" \in ex_called /\ AllOutOfRange)
    => (ex_error["direct"] = NoValidChannels /\ NothingWritten)

\* C7 (amended): on a 16-bit input, a call whose index list has no in-range
\* entry fails with the no-valid-channels error; on an input of another
\* sample width it fails with the unsupported-format error, which is checked
\* first; either way the output path is left as it was.
C7_SixteenBitAllOutOfRange ==
    ("direct" \in ex_called /\ AllOutOfRange)
    => /\ Original.sampwidth = 2 => ex_error["direct"] = NoValidChannels
       /\ Original.sampwidth # 2 => ex_error["direct"] = Only16Bit
       /\ NothingWritten

\* a 16-bit file, a non-empty list of a negative and a too-large index, an
\* older file at the output path: the call has failed and the file is intact
C7_Witness ==
    /\ "direct" \in ex_called
    /\ Original.sampwidth = 2
    /\ Len(channels_to_keep) = 2
    /\ channels_to_keep[1] < 0
    /\ channels_to_keep[2] >= Original.nchannels
    /\ ex_error["direct"] = NoValidChannels
    /\ out_before = StaleFile
    /\ fs["out"] = StaleFile

\* C8: for a 16-bit input of at least two channels, the file obtained by
\* extracting [0, 1] and then [0] from the result is identical (channel
\* count, sample width, sample rate, frame count, samples) to the file
\* obtained by extracting [0] from the original, and no call fails.
C8_PairThenFirstIsFirst ==
    (/\ ex_called = ExCalls
     /\ channels_to_keep = <<0>>
     /\ Original.sampwidth = 2
     /\ Original.nchannels >= 2)
    => /\ \A c \in ExCalls : ex_error[c] = None
       /\ Exists(fs["chained"])
       /\ fs["chained"] = fs["out"]
       /\ NFrames(fs["chained"]) = NFrames(fs["out"])

\* all three calls made on a three-channel file of two frames, both results
\* holding the two samples of channel 0
C8_Witness ==
    /\ ex_called = ExCalls
    /\ channels_to_keep = <<0>>
    /\ Original.sampwidth = 2
    /\ Original.nchannels = 3
    /\ NFrames(Original) = 2
    /\ fs["pair"].nchannels = 2
    /\ fs["chained"] = fs["out"]
    /\ fs["out"].samples = <<SampleAt(Original, 1, 0), SampleAt(Original, 2, 0)>>

MatchSet ==
    {k \in 1..Len(candidates) :
        In(Lower(prefer_name), Lower(candidates[k].name))}

MarkerSet == {k \in 1..Len(candidates) : HasMarker(Lower(candidates[k].name))}

Fallback ==
    IF MarkerSet = {} THEN candidates[1]
    ELSE candidates[CHOOSE k \in MarkerSet : \A j \in MarkerSet : k <= j]

\* C10: for a non-empty enumeration, in whatever order, the call raises
\* nothing; with a fragment that no device's name holds it returns the
\* fallback (the first device whose name holds a marker, else the first
\* device), and with a fragment that exactly one device's name holds, case
\* ignored, it returns that device.
C10_FallbackAndUniqueMatch ==
    (dev_pc = "done" /\ candidates # <<>>)
    => /\ dev_error = None
       /\ MatchSet = {} => selected = Fallback
       /\ \A k \in MatchSet : MatchSet = {k} => selected = candidates[k]

\* the fragment differs in case from the one name that holds it, and that
\* device is neither the first enumerated nor the fallback
C10_Witness ==
    /\ dev_pc = "done"
    /\ \E k \in 2..Len(candidates) :
          /\ MatchSet = {k}
          /\ selected = candidates[k]
          /\ ~In(prefer_name, candidates[k].name)
    /\ MarkerSet # {}
    /\ selected # Fallback

\* C11: with no name fragment, find_zoom_name_from_candidates returns the name
\* of the first device in enumeration order whose lower-cased name holds a
\* marker, or nothing when no device does, and the resolver returns that
\* device, or the first enumerated device when no name holds a marker.
C11_NoFragmentMarkerScan ==
    /\ zoom_name.called
        => zoom_name.name = IF MarkerSet = {} THEN <<>> ELSE Fallback.name
    /\ (dev_pc = "done" /\ prefer_name = <<>> /\ candidates # <<>>)
        => /\ dev_error = None
           /\ MarkerSet # {} => /\ selected = Fallback
                                /\ \A j \in MarkerSet : \E k \in MarkerSet :
                                      k <= j /\ selected = candidates[k]
           /\ MarkerSet = {} => selected = candidates[1]

\* no fragment, two devices with a marker behind one without: both calls
\* made, the scan named the first of the two and the resolver returned it
C11_Witness ==
    /\ dev_pc = "done"
    /\ zoom_name.called
    /\ prefer_name = <<>>
    /\ Cardinality(MarkerSet) = 2
    /\ 1 \notin MarkerSet
    /\ selected = Fallback
    /\ zoom_name.name = selected.name
    /\ selected # candidates[1]

\* C12: on an empty enumeration the resolver fails with the
\* no-devices-found error whatever the fragment; on a non-empty one it
\* never fails, and a fragment no name holds is answered with the fallback.
C12_OnlyEmptyEnumerationFails ==
    dev_pc = "done"
    => /\ candidates = <<>>
           => (dev_error = NoInputDevices /\ selected = NoDevice)
       /\ candidates # <<>>
           => /\ dev_error = None
              /\ \E k \in 1..Len(candidates) : selected = candidates[k]
              /\ MatchSet = {} => selected = Fallback

\* a fragment no name holds, a non-empty enumeration: the fallback returned
C12_Witness ==
    /\ dev_pc = "done"
    /\ Len(candidates) >= 2
    /\ prefer_name # <<>>
    /\ MatchSet = {}
    /\ dev_error = None
    /\ selected = Fallback

(***************************************************************************)
(* Claims about the start of a capture, checked under SpecStart.           *)
(***************************************************************************)
\* C13 (as claimed): on every path that starts a capture, a request for more
\* channels than the device's maximum opens the file and the stream with
\* the maximum and shows the resolved count to the user.
C13_ClampedOnEveryPath ==
    requested > max_input_channels
    => /\ start_pc \in {"file", "done"} => file_channels = max_input_channels
       /\ start_pc = "done" => /\ start_error = None
                               /\ stream_channels = max_input_channels
                               /\ announced = max_input_channels

(***************************************************************************)
(* Claims about the finalizing steps, checked under SpecFinal.             *)
(***************************************************************************)
\* the positions of the call history that hold event ev of function fn
CallsAt(fn, ev) ==
    {i \in 1..Len(fin_calls) : fin_calls[i].fn = fn /\ fin_calls[i].ev = ev}

\* the mode asks for a channel extraction
ExtractionRequired == fin_mode = "dual" \/ (fin_mode = "mic" /\ fin_mic_count > 2)

\* C29: the finalizing steps run in the order channel extraction (exactly
\* when the mode requires it), full transcription, diarization, each called
\* at most once: transcription is called only after every extraction call has
\* returned, on the extracted file when the mode required one and on the
\* recording otherwise; diarization is called only after transcription has
\* returned, on the same file and with the segment list it returned; a step
\* that raised is followed by no later step's call (diarization excepted,
\* whose failure is handled in place).
C29_ExtractThenTranscribeThenDiarize ==
    /\ \A fn \in {"extract", "transcribe", "diarize"} :
          Cardinality(CallsAt(fn, "call")) <= 1
    /\ CallsAt("extract", "call") # {} => ExtractionRequired
    /\ \A i \in CallsAt("extract", "call") :
          /\ fin_calls[i].path = IF fin_mode = "dual"
                                  THEN MicOnlyPath(fin_output_path.base)
                                  ELSE FrontPath(fin_output_path.base)
          /\ fin_calls[i].path # fin_output_path
    /\ \A i \in CallsAt("transcribe", "call") :
          /\ \A j \in CallsAt("extract", "call") :
                j < i /\ \E k \in CallsAt("extract", "return") : j < k /\ k < i
          /\ CallsAt("extract", "raise") = {}
          /\ IF ExtractionRequired
             THEN \E k \in CallsAt("extract", "return") :
                     fin_calls[i].path = fin_calls[k].path
             ELSE fin_calls[i].path = fin_output_path
    /\ \A i \in CallsAt("diarize", "call") :
          /\ CallsAt("transcribe", "raise") = {}
          /\ \E k \in CallsAt("transcribe", "return") :
                /\ k < i
                /\ fin_calls[i].segs = fin_calls[k].segs
                /\ fin_calls[i].path = fin_calls[k].path
    /\ fin_pc \in {"transcribing", "diarize", "diarizing"}
          => CallsAt("transcribe", "call") # {}
    /\ fin_pc = "note" => CallsAt("diarize", "call") # {}

\* a dual recording went through all three steps: the mic-only file was
\* extracted, transcribed into two segments, and diarized
C29_Witness ==
    /\ fin_mode = "dual"
    /\ fin_pc = "note"
    /\ Len(fin_calls) = 6
    /\ fin_calls[3].path = MicOnlyPath(fin_output_path.base)
    /\ fin_calls[6].ev = "return"
    /\ Len(segments) = 2
    /\ segments[1].speaker # None

(***************************************************************************)
(* Claims about speaker labelling, checked under SpecDiar.                 *)
(***************************************************************************)
\* the overlap of the k-th turn with a segment
TurnOverlap(seg, k) == Overlap(seg.start, seg.end, dz_turns[k].start, dz_turns[k].end)

\* the label given to a turn's speaker: its entry in the speaker map, if any
Renamed(speaker) ==
    IF speaker \in DOMAIN dz_speaker_map THEN dz_speaker_map[speaker] ELSE speaker

\* the call took the external-diarization path and has returned
ExternalReturned == dz_pc = "returned" /\ dz_hf_token

\* C31: after an external diarization every returned segment carries, whatever
\* the other segments are, the (renamed) speaker of the turn whose overlap
\* with the segment is positive and largest, the first such turn in turn
\* order when several tie; a segment that overlaps no turn has no speaker.
C31_SpeakerOfLargestOverlap ==
    ExternalReturned
    => /\ Len(dz_result.items) = Len(dz_given)
       /\ \A i \in 1..Len(dz_given) :
            LET seg     == dz_given[i]
                speaker == dz_heap[dz_result.items[i]].speaker
                turns   == 1..Len(dz_turns)
            IN IF \E k \in turns : TurnOverlap(seg, k) > 0
               THEN \E k \in turns :
                       /\ TurnOverlap(seg, k) > 0
                       /\ \A j \in turns : TurnOverlap(seg, j) <= TurnOverlap(seg, k)
                       /\ \A j \in 1..(k - 1) : TurnOverlap(seg, j) < TurnOverlap(seg, k)
                       /\ speaker = Renamed(dz_turns[k].speaker)
               ELSE speaker = None

\* two turns of different speakers tie for the largest overlap with the first
\* segment, which got the first turn's speaker; the second segment overlaps
\* a turn of the other speaker only
C31_Witness ==
    /\ ExternalReturned
    /\ Len(dz_given) = 2
    /\ Len(dz_turns) = 2
    /\ dz_turns[1].speaker # dz_turns[2].speaker
    /\ TurnOverlap(dz_given[1], 1) = TurnOverlap(dz_given[1], 2)
    /\ TurnOverlap(dz_given[1], 1) > 0
    /\ dz_heap[dz_result.items[1]].speaker = Renamed(dz_turns[1].speaker)
    /\ TurnOverlap(dz_given[2], 1) = 0
    /\ dz_heap[dz_result.items[2]].speaker = Renamed(dz_turns[2].speaker)

\* the segments of the argument list as they are now
InputNow == [i \in 1..Len(dz_segments) |-> dz_heap[dz_segments[i]]]

\* the segments of the returned list
Returned == [i \in 1..Len(dz_result.items) |-> dz_heap[dz_result.items[i]]]

\* the returned list keeps number, order, start, end and text of the argument
SameTimesAndText ==
    /\ Len(Returned) = Len(dz_given)
    /\ \A i \in 1..Len(dz_given) :
          /\ Returned[i].start = dz_given[i].start
          /\ Returned[i].end = dz_given[i].end
          /\ Returned[i].text = dz_given[i].text

\* the returned list and its segments are objects made by the call
NewListOfNewSegments ==
    /\ dz_result.list = "output"
    /\ \A i \in 1..Len(dz_result.items) : \A j \in 1..Len(dz_segments) :
          dz_result.items[i] # dz_segments[j]

\* C32 (as claimed): a call that returns hands back a new list, with the
\* argument's number, order, start, end and text, and leaves the argument's
\* segments as they were, on the external and on the fallback path.
C32_ReturnsNewListInputUnchanged ==
    dz_pc = "returned"
    => /\ NewListOfNewSegments
       /\ SameTimesAndText
       /\ InputNow = dz_given

\* C32 (amended): the argument's segments are never changed, and a call that
\* returns hands back a list with the argument's number, order, start, end
\* and text; that list is a new list of new segments unless the fallback
\* cannot import its libraries, when it is the argument list itself.
C32_InputUnchanged ==
    /\ InputNow = dz_given
    /\ dz_pc = "returned"
       => /\ SameTimesAndText
          /\ IF ~dz_hf_token /\ ~dz_imports
             THEN dz_result.list = "segments" /\ dz_result.items = dz_segments
             ELSE NewListOfNewSegments

\* the channel-energy fallback labelled two segments, one of them with the
\* right channel, in a new list; the argument's segments still have no speaker
C32_Witness ==
    /\ dz_pc = "returned"
    /\ ~dz_hf_token
    /\ dz_imports
    /\ Len(dz_segments) = 2
    /\ NewListOfNewSegments
    /\ Returned[1].speaker = "right"
    /\ Returned[2].speaker # None
    /\ InputNow[1].speaker = None

\* ---- the transcript timeline ----
\* the time of an input entry, as the claim states it
SegmentTime(i) == tl_segments[i].start

StatedNoteTime(i) ==
    LET stamp == NoteStamp(tl_notes[i])
    IN IF stamp = <<"0", "0", ":", "0", "1">> THEN 100
       ELSE IF stamp = <<"0", "1", ":", "0", "0">> THEN 6000
       ELSE 0

\* where the line of an input entry stands in the returned list (0: nowhere,
\* or more than once)
PlaceOf(line) ==
    LET at == {p \in 1..Len(tl_lines) : tl_lines[p] = line}
    IN IF Cardinality(at) = 1 THEN CHOOSE p \in at : TRUE ELSE 0

SegmentPlace(i) == PlaceOf(SegmentEntry(tl_segments[i]).line)

NotePlace(i) == PlaceOf(NoteEntry(tl_notes[i]).line)

\* C40: the returned timeline has exactly one line per segment and one per
\* timestamped note, in non-decreasing time (segment start, or the note's
\* stamp in seconds, 0 when the stamp does not parse); among entries of equal
\* time segments come before notes and each group keeps its input order.
C40_TimelineOrderedAndComplete ==
    tl_pc = "returned" =>
        LET S == 1..Len(tl_segments)
            N == 1..Len(tl_notes)
        IN /\ Len(tl_lines) = Len(tl_segments) + Len(tl_notes)
           /\ \A i \in S : SegmentPlace(i) # 0
           /\ \A i \in N : NotePlace(i) # 0
           /\ \A i, j \in S :
                 \/ SegmentTime(i) < SegmentTime(j)
                 \/ (SegmentTime(i) = SegmentTime(j) /\ i < j)
                 => SegmentPlace(i) < SegmentPlace(j)
           /\ \A i, j \in N :
                 \/ StatedNoteTime(i) < StatedNoteTime(j)
                 \/ (StatedNoteTime(i) = StatedNoteTime(j) /\ i < j)
                 => NotePlace(i) < NotePlace(j)
           /\ \A i \in S, j \in N :
                 /\ SegmentTime(i) <= StatedNoteTime(j) => SegmentPlace(i) < NotePlace(j)
                 /\ SegmentTime(i) > StatedNoteTime(j) => NotePlace(j) < SegmentPlace(i)

\* a returned timeline with two segments and a note of one time, and a note
\* whose stamp does not parse
C40_Witness ==
    /\ tl_pc = "returned"
    /\ Len(tl_segments) = 2
    /\ Len(tl_notes) = 2
    /\ tl_segments[1].start = 100
    /\ tl_segments[2].start = 100
    /\ tl_notes[1].has_timestamp
    /\ tl_notes[1].timestamp = <<"0", "0", ":", "0", "1">>
    /\ tl_notes[2].timestamp = <<"x">>
    /\ SegmentPlace(1) = 2
    /\ SegmentPlace(2) = 3
    /\ NotePlace(1) = 4
    /\ NotePlace(2) = 1
\* ---- the end of _worker ----
\* C38: when capture, transcription and diarization completed without error,
\* the worker writes the note, then the segments file, then the session
\* record, reports the saved status and then runs the cleanup of old
\* recordings, skipping none of these.
C38_SavesAllThenCleansUp ==
    sv_pc = "done" =>
        /\ sv_written = <<"note", "segments", "session">>
        /\ sv_session_file # Absent
        /\ sv_status = "Saved"
        /\ sv_cleanup
====
